---- MODULE Spec2Model ----
(***************************************************************************)
(* uniqtabs: the WebExtension background script                           *)
(* (src/webextension/background.js, latest variant, lines 442-1041).       *)
(* The host (browser.tabs, browser.contextualIdentities, browser.storage)  *)
(* is modelled as the ordered tab collection per window plus the set of    *)
(* host calls in flight; every settlement of a host call is one step, and  *)
(* the promise reactions that follow it run to completion inside the step. *)
(***************************************************************************)
EXTENDS Integers, Sequences, FiniteSets, TLC

(***************************************************************************)
(* Bounds.                                                                 *)
(***************************************************************************)
MaxTabs == 2
MaxPasses == 2

WindowIds == {1, 2}

(***************************************************************************)
(* Strings are sequences of character codes.  The code of a character is   *)
(* its position in Alphabet, which lists the characters in collation       *)
(* order, so that localeCompare is the lexicographic comparison of codes.  *)
(***************************************************************************)
Alphabet ==
  << " ", "_", "#", ".", "/", ":", "?",
     "a", "A", "b", "B", "c", "d", "e", "f", "g", "h", "i", "j", "k", "l",
     "m", "n", "o", "p", "q", "r", "s", "t", "u", "v", "w", "x", "y", "z" >>

Ch(c) == CHOOSE i \in 1..Len(Alphabet) : Alphabet[i] = c

Str(cs) == [i \in 1..Len(cs) |-> Ch(cs[i])]

Sign(n) == IF n < 0 THEN -1 ELSE IF n > 0 THEN 1 ELSE 0

Min(a, b) == IF a <= b THEN a ELSE b

\* The least element of a non-empty set of integers.
Least(S) == CHOOSE i \in S : \A j \in S : i <= j

\* Body applied to the value of an expression that is computed once, as a
\* `const x = value` followed by statements that use x.
With(value, Body(_)) == CHOOSE r \in {Body(x) : x \in {value}} : TRUE

\* The first non-zero element of a sequence of numbers, 0 when there is none:
\* the value a comparison loop ends with when it breaks at the first
\* non-zero result.
FirstNonZero(results) ==
  With(results, LAMBDA rs :
    LET nonZero == {i \in 1..Len(rs) : rs[i] # 0}
    IN  IF nonZero = {} THEN 0 ELSE rs[Least(nonZero)])

\* result || alternative
OrElse(result, alternative) ==
  With(result, LAMBDA r : IF r # 0 THEN r ELSE alternative)

\* String.prototype.localeCompare: the sign at the first position where the
\* strings differ, the shorter string first when one is a prefix of the other.
localeCompare(a, b) ==
  OrElse(FirstNonZero([i \in 1..Min(Len(a), Len(b)) |-> Sign(a[i] - b[i])]),
         Sign(Len(a) - Len(b)))

\* String.prototype.split(sep) for a one-character separator.
RECURSIVE splitFrom(_, _, _, _)
splitFrom(s, sep, i, cur) ==
  IF i > Len(s) THEN << cur >>
  ELSE IF s[i] = sep THEN << cur >> \o splitFrom(s, sep, i + 1, << >>)
  ELSE splitFrom(s, sep, i + 1, Append(cur, s[i]))

split(s, sep) == splitFrom(s, Ch(sep), 1, << >>)

reverse(seq) == [i \in 1..Len(seq) |-> seq[Len(seq) + 1 - i]]

\* Array.prototype.slice(from, to) with 0-based, end-exclusive indices.
slice(seq, from, to) == SubSeq(seq, from + 1, Min(to, Len(seq)))

\* pathname.replace(/^\/|\/$/g, "")
trimSlashes(p) ==
  LET a == IF Len(p) > 0 /\ p[1] = Ch("/") THEN Tail(p) ELSE p
  IN  IF Len(a) > 0 /\ a[Len(a)] = Ch("/") THEN SubSeq(a, 1, Len(a) - 1) ELSE a

(***************************************************************************)
(* WindowProps.getHostnameTokens / getPathnameTokens (the computed value;  *)
(* the caches are part of the pass state below).                           *)
(***************************************************************************)
\* getHostnameTokens that always splits after the first reversed label
\* (splitIndex = 1).
getHostnameTokensAtOne(hostname) ==
  LET tokens == reverse(split(hostname, "."))
  IN  << slice(tokens, 0, 1), slice(tokens, 1, Len(tokens)) >>

getHostnameTokens(hostname) ==
  LET tokens == reverse(split(hostname, "."))
      splitIndex == IF Len(tokens) > 2 /\ Len(tokens[2]) <= 3 THEN 2 ELSE 1
  IN  << slice(tokens, 0, splitIndex), slice(tokens, splitIndex, Len(tokens)) >>

getPathnameTokens(pathname) == split(pathname, "/")

(***************************************************************************)
(* compareTokens                                                           *)
(***************************************************************************)
\* compareTokens without the comparison of the lengths (return 0 after the
\* loop).
compareTokensNoLength(tokensA, tokensB) ==
  FirstNonZero([index \in 1..Min(Len(tokensA), Len(tokensB)) |->
                  localeCompare(tokensA[index], tokensB[index])])

compareTokens(tokensA, tokensB) ==
  IF tokensA = tokensB THEN 0
  ELSE OrElse(FirstNonZero([index \in 1..Min(Len(tokensA), Len(tokensB)) |->
                              localeCompare(tokensA[index], tokensB[index])]),
              Len(tokensA) - Len(tokensB))

(***************************************************************************)
(* URLs.  A url is the record of the parts that `new URL(url)` yields.     *)
(***************************************************************************)
URL(protocol, hostname, pathname, search, hash) ==
  [protocol |-> Str(protocol), hostname |-> Str(hostname),
   pathname |-> Str(pathname), search |-> Str(search), hash |-> Str(hash)]

AboutBlank == URL(<<"a","b","o","u","t",":">>, << >>, <<"b","l","a","n","k">>, << >>, << >>)
AboutNewtab == URL(<<"a","b","o","u","t",":">>, << >>, <<"n","e","w","t","a","b">>, << >>, << >>)
AboutPrivatebrowsing ==
  URL(<<"a","b","o","u","t",":">>, << >>,
      <<"p","r","i","v","a","t","e","b","r","o","w","s","i","n","g">>, << >>, << >>)
ChromeNewtab ==
  URL(<<"c","h","r","o","m","e",":">>, <<"n","e","w","t","a","b">>, <<"/">>, << >>, << >>)

\* The url "" of a tab that has none: the one url of the model that
\* `new URL(url || "")` cannot parse.  A parsed url has a protocol.
NoUrl == URL(<< >>, << >>, << >>, << >>, << >>)

\* new URL(url || "") returns (it throws a TypeError otherwise).
parses(url) == url.protocol # << >>

BLANK_TAB_URLS == {AboutBlank, AboutNewtab, AboutPrivatebrowsing, ChromeNewtab}

SORT_MODES ==
  [none |-> 0, host_title_path |-> 1, host_path_title |-> 2,
   title_host_path |-> 3, auto |-> 4]

PREFS_DEFAULT ==
  [pref_tabs_deduplicate_on_browser_action |-> "false",
   pref_tabs_deduplicate_on_update |-> "false",
   pref_tabs_sort_by_container |-> "true",
   pref_tabs_sort_by_parts |-> "none",
   pref_tabs_sort_by_query_string |-> "true",
   pref_tabs_sort_on_browser_action |-> "false",
   pref_tabs_sort_on_update |-> "false"]

\* The host's container enumeration, browser.contextualIdentities.query({}).
NoContainer == "firefox-default"
ContainersArray == << "firefox-container-1", "firefox-container-2" >>

\* containers = new Map(containersArray.map((c, index) => [c.cookieStoreId, index]))
ContainersMap == [i \in 1..Len(ContainersArray) |-> << ContainersArray[i], i - 1 >>]

\* containers && containers.get(cookieStoreId) || -1
\* (containers = << >> stands for null)
containerIndexOf(containers, cookieStoreId) ==
  LET hits == {i \in 1..Len(containers) : containers[i][1] = cookieStoreId}
  IN  IF hits = {} THEN -1
      ELSE LET got == containers[CHOOSE i \in hits : TRUE][2]
           IN  IF got = 0 THEN -1 ELSE got

(***************************************************************************)
(* TabProps: the descriptor of one tab.  A criterion is a typed value, as  *)
(* the comparators switch on `typeof criterionA`.                          *)
(***************************************************************************)
Num(n) == [type |-> "number", val |-> n]
Boo(b) == [type |-> "boolean", val |-> IF b THEN 1 ELSE 0]
Txt(s) == [type |-> "string", val |-> s]
Obj(t) == [type |-> "object", val |-> t]

TabProps(tab, index, containers, sortPrefs) ==
  LET url == tab.url
      pathnameTrimmed == trimSlashes(url.pathname)
      hasPathname == pathnameTrimmed # << >>
      containerIndex == containerIndexOf(containers, tab.cookieStoreId)
      hostnameTokens == getHostnameTokens(url.hostname)
      tldTokens == hostnameTokens[1]
      lowerDomainTokens == hostnameTokens[2]
      pathnameTokens == getPathnameTokens(pathnameTrimmed)
      queryString == IF sortPrefs.sortByQueryString THEN url.search ELSE << >>
      title == tab.title
      criteriaBase ==
        << Num(containerIndex), Txt(url.protocol), Obj(lowerDomainTokens),
           Obj(tldTokens), Boo(hasPathname), Obj(pathnameTokens),
           Txt(queryString), Txt(url.hash), Txt(title) >>
      criteria ==
        CASE sortPrefs.sortMode = 1 ->
               << Num(containerIndex), Txt(url.protocol), Obj(lowerDomainTokens),
                  Obj(tldTokens), Boo(hasPathname), Txt(title),
                  Obj(pathnameTokens), Txt(queryString), Txt(url.hash) >>
          [] sortPrefs.sortMode = 2 -> criteriaBase
          [] sortPrefs.sortMode = 3 ->
               << Num(containerIndex), Txt(title), Txt(url.protocol),
                  Obj(lowerDomainTokens), Obj(tldTokens), Boo(hasPathname),
                  Obj(pathnameTokens), Txt(queryString), Txt(url.hash) >>
          [] sortPrefs.sortMode = 4 ->
               << Num(containerIndex), Txt(url.protocol), Obj(lowerDomainTokens),
                  Obj(tldTokens) >>
          [] OTHER -> << Num(containerIndex) >>
  IN  [id |-> tab.id,
       index |-> index,
       isActive |-> tab.active,
       isBlank |-> url \in BLANK_TAB_URLS,
       isDuplicate |-> FALSE,
       status |-> tab.status,
       title |-> title,
       hostname |-> url.hostname,
       pathname |-> pathnameTrimmed,
       queryString |-> queryString,
       hash |-> url.hash,
       pathnameTokens |-> pathnameTokens,
       criteria |-> criteria,
       criteriaBase |-> criteriaBase]

\* get maybeSlug()
UpperCase == {Ch("A"), Ch("B")}
toLocaleLowerCase(s) == [i \in 1..Len(s) |-> IF s[i] \in UpperCase THEN s[i] - 1 ELSE s[i]]
IsWordChar(c) == c = Ch("_") \/ c >= Ch("a")
charAt0(s) == IF Len(s) = 0 THEN << >> ELSE << s[1] >>

titleSlugged(title) ==
  LET under == [i \in 1..Len(title) |-> IF title[i] = Ch(" ") THEN Ch("_") ELSE title[i]]
  IN  SelectSeq(toLocaleLowerCase(under), IsWordChar)

maybeSlug(props) ==
  LET pathEnd == props.pathnameTokens[Len(props.pathnameTokens)]
  IN  IF charAt0(pathEnd) = charAt0(titleSlugged(props.title)) THEN pathEnd ELSE << >>

(***************************************************************************)
(* The comparators.                                                        *)
(***************************************************************************)
compareCriterion(criterionA, criterionB) ==
  CASE criterionA.type = "object" -> compareTokens(criterionA.val, criterionB.val)
    [] criterionA.type = "string" -> localeCompare(criterionA.val, criterionB.val)
    [] OTHER -> criterionA.val - criterionB.val

compareCriteria(criteriaA, criteriaB) ==
  FirstNonZero([index \in 1..Len(criteriaA) |->
                  compareCriterion(criteriaA[index], criteriaB[index])])

\* compareTabsOrder that never reports a tie (return result || 1).
compareTabsOrderNoTie(propsA, propsB) ==
  OrElse(compareCriteria(propsA.criteria, propsB.criteria), 1)

compareTabsOrder(propsA, propsB) ==
  compareCriteria(propsA.criteria, propsB.criteria)

\* The loop of compareTabsOrderAuto over the path tokens: its results up to
\* the shorter length; the loop breaks at the first non-zero one.
autoPathResults(tokensA, tokensB) ==
  [i \in 1..Min(Len(tokensA), Len(tokensB)) |-> localeCompare(tokensA[i], tokensB[i])]

\* The 0-based index at which the loop ends.
autoPathIndex(results) ==
  LET nonZero == {i \in 1..Len(results) : results[i] # 0}
  IN  IF nonZero = {} THEN Len(results) ELSE Least(nonZero) - 1

\* return propsA.title.localeCompare(propsB.title) || ... || ...hash...
autoTail(propsA, propsB) ==
  OrElse(localeCompare(propsA.title, propsB.title),
         OrElse(localeCompare(propsA.queryString, propsB.queryString),
                localeCompare(propsA.hash, propsB.hash)))

\* compareTabsOrderAuto once compareTabsOrder has reported a tie.
autoAfterTie(propsA, propsB, results, maybeSlugA, maybeSlugB) ==
  LET tokensLengthDiff == Len(propsA.pathnameTokens) - Len(propsB.pathnameTokens)
      result == FirstNonZero(results)
      index == autoPathIndex(results)
  IN  IF tokensLengthDiff # 0 THEN OrElse(result, tokensLengthDiff)
      ELSE IF result # 0 /\ index > 1 /\ maybeSlugA # << >> /\ maybeSlugB # << >>
        THEN localeCompare(maybeSlugA, maybeSlugB)
      ELSE autoTail(propsA, propsB)

compareTabsOrderAuto(propsA, propsB) ==
  OrElse(compareTabsOrder(propsA, propsB),
         autoAfterTie(propsA, propsB,
                      autoPathResults(propsA.pathnameTokens, propsB.pathnameTokens),
                      maybeSlug(propsA), maybeSlug(propsB)))

\* compareTabsSimilarity reading criteria, the criteria of the sort mode,
\* where it reads criteriaBase.
similarityResultByCriteria(propsA, propsB) ==
  compareCriteria(propsA.criteria, propsB.criteria)

\* The numeric result of compareTabsSimilarity.
similarityResult(propsA, propsB) ==
  compareCriteria(propsA.criteriaBase, propsB.criteriaBase)

\* The marking without the rule for the active tab: the higher index is
\* marked, whichever tab is active.
similarityMarksByIndex(propsA, propsB) ==
  IF similarityResult(propsA, propsB) # 0 THEN {}
  ELSE IF propsA.index < propsB.index THEN {propsB.id}
  ELSE {propsA.id}

\* The marking done by compareTabsSimilarity(propsA, propsB): the set of
\* tab ids whose descriptor gets isDuplicate = true by the call.
similarityMarks(propsA, propsB) ==
  IF similarityResult(propsA, propsB) # 0 THEN {}
  ELSE IF propsA.isActive THEN {propsB.id}
  ELSE IF propsB.isActive \/ propsA.index < propsB.index THEN {propsA.id}
  ELSE {}

(***************************************************************************)
(* Array.prototype.sort.  The order in which the host calls the compare    *)
(* function, and which element it passes first, is implementation-defined; *)
(* the model is the insertion sort the engines run on short arrays, with   *)
(* the argument order (argFirst) left to the caller's choice.              *)
(* The result is the sorted array and the set of calls << A, B >> made.    *)
(***************************************************************************)
ArgOrders == {"swap", "item"}

compareWith(which, propsA, propsB) ==
  CASE which = "order" -> compareTabsOrder(propsA, propsB)
    [] which = "auto" -> compareTabsOrderAuto(propsA, propsB)
    [] OTHER -> similarityResult(propsA, propsB)

\* The inner loop for the i-th element: it steps back over the elements
\* that compare greater than item and stops at the first that does not.
\* stops: the positions before i whose element does not compare greater.
scanStops(array, i, which, argFirst) ==
  {j \in 1..(i - 1) : IF argFirst = "swap"
                      THEN compareWith(which, array[j], array[i]) <= 0
                      ELSE compareWith(which, array[i], array[j]) >= 0}

\* The position the loop stops at (0: it ran off the front).
scanStop(stops) == IF stops = {} THEN 0 ELSE CHOOSE j \in stops : \A k \in stops : k <= j

\* The array after the i-th element has been put in its place.
inserted(array, i, stop) ==
  [k \in 1..Len(array) |->
     IF k <= stop THEN array[k]
     ELSE IF k = stop + 1 THEN array[i]
     ELSE IF k <= i THEN array[k - 1]
     ELSE array[k]]

\* The calls << A, B >> of the compare function the loop has made.
scanCalls(array, i, stop, argFirst) ==
  {IF argFirst = "swap" THEN << array[j], array[i] >> ELSE << array[i], array[j] >>
     : j \in {j \in 1..(i - 1) : j >= stop}}

RECURSIVE insertionSort(_, _, _, _, _)
insertionSort(array, calls, i, which, argFirst) ==
  IF i > Len(array) THEN [array |-> array, calls |-> calls]
  ELSE With(scanStop(scanStops(array, i, which, argFirst)), LAMBDA stop :
         With(inserted(array, i, stop), LAMBDA next :
           With(calls \cup scanCalls(array, i, stop, argFirst), LAMBDA called :
             insertionSort(next, called, i + 1, which, argFirst))))

arraySort(array, which, argFirst) == insertionSort(array, {}, 2, which, argFirst)

\* The array with the isDuplicate flags that the calls of
\* compareTabsSimilarity have set.
withMarks(sorted) ==
  With(UNION {similarityMarks(c[1], c[2]) : c \in sorted.calls}, LAMBDA marked :
    [i \in 1..Len(sorted.array) |->
       [sorted.array[i] EXCEPT !.isDuplicate = sorted.array[i].id \in marked]])

\* tabPropsArray.sort(compareTabsSimilarity)
sortBySimilarity(array, argFirst) ==
  With(arraySort(array, "similarity", argFirst), LAMBDA sorted : withMarks(sorted))

(***************************************************************************)
(* The host's tabs.                                                        *)
(***************************************************************************)
PageA ==
  [url |-> URL(<<"h","t","t","p","s",":">>, <<"a",".","c","o","m">>, <<"/","x">>, << >>, << >>),
   title |-> Str(<<"a">>)]
PageB ==
  [url |-> URL(<<"h","t","t","p","s",":">>, <<"b",".","c","o","m">>, <<"/">>, << >>, << >>),
   title |-> Str(<<"b">>)]
PageBlank == [url |-> AboutBlank, title |-> << >>]
PageNewtab == [url |-> AboutNewtab, title |-> << >>]
PageNoUrl == [url |-> NoUrl, title |-> << >>]

Statuses == {"loading", "complete"}

Tab(id, page, pinned, active, status) ==
  [id |-> id, pinned |-> pinned, active |-> active, status |-> status,
   title |-> page.title, url |-> page.url, cookieStoreId |-> NoContainer]

\* What an unpinned tab of the initial state may be.
TabKinds == {PageA, PageBlank} \X Statuses

\* A window of n tabs: the first k pinned, the a-th active, the unpinned
\* ones of the given kinds; tab ids are base + position.
Layout(base, n, k, a, kinds) ==
  [i \in 1..n |->
     IF i <= k THEN Tab(base + i, PageA, TRUE, i = a, "complete")
     ELSE Tab(base + i, kinds[i - k][1], FALSE, i = a, kinds[i - k][2])]

\* The windows of n tabs.
Layouts(base, n) ==
  IF n = 0 THEN {<< >>}
  ELSE UNION {UNION {{Layout(base, n, k, a, kinds) : kinds \in [1..(n - k) -> TabKinds]}
                     : a \in 1..n} : k \in 0..n}

(***************************************************************************)
(* State.                                                                  *)
(*   PREFS      the background script's preferences object                 *)
(*   tabs       the host's tabs: per window, in index order                *)
(*   nextTabId  the id the host gives the next created tab                 *)
(*   windows    WindowProps.windows                                        *)
(*   passes     the processTabs invocations that got past the guard, in    *)
(*              order of start: closure variables and WindowProps of each  *)
(*   calls      the host calls issued and not yet settled                  *)
(***************************************************************************)
VARIABLES PREFS, tabs, nextTabId, windows, passes, calls

vars == << PREFS, tabs, nextTabId, windows, passes, calls >>

\* The invocations whose promise chain has not completed.
LivePasses == {p \in 1..Len(passes) : passes[p].pc # "done"}

\* The preference objects the options page may save.
PrefProfiles ==
  { PREFS_DEFAULT,
    [PREFS_DEFAULT EXCEPT !.pref_tabs_sort_on_browser_action = "true",
                          !.pref_tabs_sort_on_update = "true",
                          !.pref_tabs_deduplicate_on_browser_action = "true",
                          !.pref_tabs_sort_by_parts = "host_title_path"],
    [PREFS_DEFAULT EXCEPT !.pref_tabs_deduplicate_on_browser_action = "true",
                          !.pref_tabs_deduplicate_on_update = "true",
                          !.pref_tabs_sort_by_container = "false"] }

\* The two windows are interchangeable: of two initial states that are
\* mirror images of each other, Init keeps the one whose first window has
\* more tabs or, with as many tabs, the layout of the higher rank.
RECURSIVE LayoutRank(_)
LayoutRank(layout) ==
  IF layout = << >> THEN 0
  ELSE (IF Head(layout).pinned THEN 0
        ELSE 1 + (IF Head(layout).url \in BLANK_TAB_URLS THEN 2 ELSE 0)
               + (IF Head(layout).status = "loading" THEN 1 ELSE 0))
       + 5 * LayoutRank(Tail(layout))

Init ==
  /\ PREFS = PREFS_DEFAULT
  /\ \E n1 \in 0..MaxTabs : \E n2 \in 0..(MaxTabs - n1) :
       /\ n1 + n2 >= 1
       /\ n1 >= n2
       /\ \E l1 \in Layouts(0, n1), l2 \in Layouts(MaxTabs, n2) :
            /\ n1 = n2 => LayoutRank(l1) >= LayoutRank(l2)
            /\ tabs = (1 :> l1) @@ (2 :> l2)
  /\ nextTabId = 2 * MaxTabs + 1
  /\ windows = {}
  /\ passes = << >>
  /\ calls = {}

(***************************************************************************)
(* Host operations on a window's tab sequence.                             *)
(***************************************************************************)
idsOf(seq) == {seq[i].id : i \in 1..Len(seq)}

\* browser.tabs.query({windowId}): every tab of the window.
queryAllTabs(w) == [j \in 1..Len(tabs[w]) |-> [tab |-> tabs[w][j], index |-> j - 1]]

\* browser.tabs.query({pinned: false, windowId}): the unpinned tabs with
\* their 0-based index.
queryUnpinned(w) ==
  LET unpinned(i) == ~tabs[w][i].pinned
      at == SelectSeq([i \in 1..Len(tabs[w]) |-> i], unpinned)
  IN  [j \in 1..Len(at) |-> [tab |-> tabs[w][at[j]], index |-> at[j] - 1]]

\* browser.tabs.move(ids, {index}): the tabs of ids become a contiguous
\* block at index, in the order of ids.
hostMove(seq, ids, index) ==
  LET inIds(t) == \E i \in 1..Len(ids) : ids[i] = t.id
      notInIds(t) == ~inIds(t)
      rest == SelectSeq(seq, notInIds)
      block == [i \in 1..Len(ids) |-> seq[CHOOSE k \in 1..Len(seq) : seq[k].id = ids[i]]]
      at == Min(index, Len(rest))
  IN  SubSeq(rest, 1, at) \o block \o SubSeq(rest, at + 1, Len(rest))

\* browser.tabs.remove(ids); newActive is the tab the host activates when
\* the active tab is among the removed ones (0: none).
hostRemove(seq, ids, newActive) ==
  LET kept(t) == t.id \notin ids
      rest == SelectSeq(seq, kept)
  IN  [i \in 1..Len(rest) |->
        IF rest[i].id = newActive THEN [rest[i] EXCEPT !.active = TRUE] ELSE rest[i]]

activeCandidates(seq, ids) ==
  LET rest == {seq[i] : i \in 1..Len(seq)}
      left == {t \in rest : t.id \notin ids}
  IN  IF left = {} \/ \E t \in left : t.active THEN {0} ELSE {t.id : t \in left}

\* browser.tabs.create({active: false, windowId})
hostCreate(seq, id) == Append(seq, Tab(id, PageNewtab, FALSE, FALSE, "loading"))

Call(p, windowId, kind, ids, index) ==
  [pass |-> p, windowId |-> windowId, kind |-> kind, ids |-> ids, index |-> index]

(***************************************************************************)
(* processTabs.  A pass record holds the closure variables of one          *)
(* invocation (index, tabPropsArray, unpinnedTabs while the container      *)
(* query is awaited), its WindowProps (windowId and the two token caches), *)
(* pc, the host call whose settlement the promise chain waits for, and     *)
(* issued, the history of the host calls the invocation has made.          *)
(***************************************************************************)
\* "contextualIdentities" in browser
HasContextualIdentities == TRUE

NewPass(windowId, sort, deduplicate, prefs) ==
  [windowId |-> windowId, sort |-> sort, deduplicate |-> deduplicate,
   prefs |-> prefs, pc |-> "query", index |-> -1,
   unpinnedTabs |-> << >>, tabPropsArray |-> << >>,
   hostnameTokenCache |-> {}, pathnameTokenCache |-> {},
   issued |-> << "query" >>]

\* The steps of one reaction of the promise chain yield the pass record
\* after it and the host calls it has issued.
Outcome(pass, newCalls) == [pass |-> pass, calls |-> newCalls]

\* A chain that ends without the final handler: the pass stays as it is.
TeardownSkipped(pass) == Outcome([pass EXCEPT !.pc = "ended"], {})

\* .catch(...).finally(...): tabPropsArray.length = 0; windowProps.clear().
\* Once the chain has completed, nothing of the invocation is reachable but
\* its emptied array and caches.
Teardown(pass) ==
  Outcome([pc |-> "done", tabPropsArray |-> << >>,
           hostnameTokenCache |-> {}, pathnameTokenCache |-> {}],
          {})

\* The filter without its test of the load status.
isUnwantedAnyStatus(tabProps, deduplicate) ==
  tabProps.isBlank \/ (deduplicate /\ tabProps.isDuplicate)

\* The filter that takes blank tabs only.
isUnwantedBlank(tabProps, deduplicate) ==
  tabProps.status = "complete" /\ tabProps.isBlank

isUnwanted(tabProps, deduplicate) ==
  /\ tabProps.status = "complete"
  /\ (tabProps.isBlank \/ (deduplicate /\ tabProps.isDuplicate))

idList(array) == [i \in 1..Len(array) |-> array[i].id]

\* Filter duplicate and blank tabs.
unwantedOf(array, deduplicate) ==
  LET unwanted(tabProps) == isUnwanted(tabProps, deduplicate)
  IN  SelectSeq(array, unwanted)

\* The create/remove calls when the placeholder is created whatever the
\* index of the first unpinned tab.
cullCallsAtAnyIndex(p, pass, array, unwantedTabs) ==
  IF Len(array) = Len(unwantedTabs)
  THEN Outcome([pass EXCEPT !.pc = "create", !.tabPropsArray = array,
                            !.issued = pass.issued \o << "create", "remove" >>],
               {Call(p, pass.windowId, "create", << >>, 0),
                Call(p, pass.windowId, "remove", idList(unwantedTabs), 0)})
  ELSE Outcome([pass EXCEPT !.pc = "remove", !.tabPropsArray = array,
                            !.issued = Append(pass.issued, "remove")],
               {Call(p, pass.windowId, "remove", idList(unwantedTabs), 0)})

\* The create/remove calls, given the array after duplicate detection and
\* the unwanted tabs.
cullCalls(p, pass, array, unwantedTabs) ==
  IF pass.index = 0 /\ Len(array) = Len(unwantedTabs)
  THEN Outcome([pass EXCEPT !.pc = "create", !.tabPropsArray = array,
                            !.issued = pass.issued \o << "create", "remove" >>],
               {Call(p, pass.windowId, "create", << >>, 0),
                Call(p, pass.windowId, "remove", idList(unwantedTabs), 0)})
  ELSE Outcome([pass EXCEPT !.pc = "remove", !.tabPropsArray = array,
                            !.issued = Append(pass.issued, "remove")],
               {Call(p, pass.windowId, "remove", idList(unwantedTabs), 0)})

\* The second reaction: detect duplicates, filter, cull.
Cull(p, pass, argFirst) ==
  With(IF pass.deduplicate THEN sortBySimilarity(pass.tabPropsArray, argFirst)
                           ELSE pass.tabPropsArray,
       LAMBDA array :
         With(unwantedOf(array, pass.deduplicate), LAMBDA unwantedTabs :
           cullCalls(p, pass, array, unwantedTabs)))

\* tabPropsArray = unpinnedTabs.map(unpinnedTab => new TabProps(...)), which
\* fills the token caches of windowProps.
withDescriptors(pass, tabPropsArray) ==
  [pass EXCEPT
     !.unpinnedTabs = << >>,
     !.tabPropsArray = tabPropsArray,
     !.hostnameTokenCache =
        {<< tabPropsArray[i].hostname, getHostnameTokens(tabPropsArray[i].hostname) >>
           : i \in 1..Len(tabPropsArray)},
     !.pathnameTokenCache =
        {<< tabPropsArray[i].pathname, getPathnameTokens(tabPropsArray[i].pathname) >>
           : i \in 1..Len(tabPropsArray)}]

\* Sort and move tabs into place.
moveSorted(p, pass, sorted) ==
  Outcome([pass EXCEPT !.pc = "move", !.tabPropsArray = sorted,
                       !.issued = Append(pass.issued, "move")],
          {Call(p, pass.windowId, "move", idList(sorted), pass.index)})

\* The first reaction without its test of sort.
sortAndMoveAlways(p, built, sortMode, argFirst) ==
  With(arraySort(built.tabPropsArray,
                 IF sortMode = 4 THEN "auto" ELSE "order", argFirst).array,
       LAMBDA sorted : moveSorted(p, built, sorted))

sortAndMove(p, built, sortMode, argFirst) ==
  IF ~built.sort THEN Cull(p, built, argFirst)
  ELSE With(arraySort(built.tabPropsArray,
                      IF sortMode = 4 THEN "auto" ELSE "order", argFirst).array,
            LAMBDA sorted : moveSorted(p, built, sorted))

\* sortPrefs read from the PREFS object of the background script, where
\* the pass has its own copy.
sortPrefsOfCurrent(prefs) ==
  [sortMode |-> SORT_MODES[PREFS.pref_tabs_sort_by_parts],
   sortByQueryString |-> PREFS.pref_tabs_sort_by_query_string = "true"]

\* sortPrefs that take the query string whatever the preference says.
sortPrefsOfWithQuery(prefs) ==
  [sortMode |-> SORT_MODES[prefs.pref_tabs_sort_by_parts],
   sortByQueryString |-> TRUE]

sortPrefsOf(prefs) ==
  [sortMode |-> SORT_MODES[prefs.pref_tabs_sort_by_parts],
   sortByQueryString |-> prefs.pref_tabs_sort_by_query_string = "true"]

\* The first reaction from the container lookup on: build the descriptors,
\* sort and move.
Build(p, pass, unpinnedTabs, containers, argFirst) ==
  IF \E i \in 1..Len(unpinnedTabs) : ~parses(unpinnedTabs[i].tab.url)
  THEN Teardown(pass)
  ELSE
  With([i \in 1..Len(unpinnedTabs) |->
          TabProps(unpinnedTabs[i].tab, unpinnedTabs[i].index, containers,
                   sortPrefsOf(pass.prefs))],
       LAMBDA tabPropsArray :
         With(withDescriptors(pass, tabPropsArray), LAMBDA built :
           sortAndMove(p, built, SORT_MODES[pass.prefs.pref_tabs_sort_by_parts],
                       argFirst)))

\* The first reaction without the check for an empty query result: the
\* pass goes on to cull an empty array.
FetchedUnchecked(p, pass, unpinnedTabs, argFirst) ==
  IF Len(unpinnedTabs) = 0
  THEN Outcome([pass EXCEPT !.pc = "remove", !.issued = Append(pass.issued, "remove")],
               {Call(p, pass.windowId, "remove", << >>, 0)})
  ELSE Build(p, [pass EXCEPT !.index = unpinnedTabs[1].index], unpinnedTabs, << >>,
             argFirst)

\* The first reaction up to the container lookup.
Fetched(p, pass, unpinnedTabs, argFirst) ==
  IF Len(unpinnedTabs) = 0 THEN Teardown(pass)
  ELSE IF HasContextualIdentities /\ pass.prefs.pref_tabs_sort_by_container = "true"
  THEN Outcome([pass EXCEPT !.index = unpinnedTabs[1].index,
                            !.pc = "containers",
                            !.unpinnedTabs = unpinnedTabs,
                            !.issued = Append(pass.issued, "containers")],
               {Call(p, pass.windowId, "containers", << >>, 0)})
  ELSE Build(p, [pass EXCEPT !.index = unpinnedTabs[1].index], unpinnedTabs, << >>,
             argFirst)

\* The state after a reaction of pass p that consumed the call c.
Settle(p, c, outcome) ==
  /\ passes' = [passes EXCEPT ![p] = outcome.pass]
  /\ calls' = (calls \ {c}) \cup outcome.calls
  /\ windows' = IF outcome.pass.pc = "done"
                THEN windows \ {passes[p].windowId} ELSE windows

\* processTabs without its entry guard.
processTabsUnguarded(windowId, sort, deduplicate, prefs) ==
  /\ Len(passes) < MaxPasses
  /\ windows' = windows \cup {windowId}
  /\ passes' = Append(passes, NewPass(windowId, sort, deduplicate, prefs))
  /\ calls' = calls \cup {Call(Len(passes) + 1, windowId, "query", << >>, 0)}

processTabs(windowId, sort, deduplicate, prefs) ==
  IF windowId \in windows
  THEN UNCHANGED << windows, passes, calls >>
  ELSE /\ Len(passes) < MaxPasses
       /\ windows' = windows \cup {windowId}
       /\ passes' = Append(passes, NewPass(windowId, sort, deduplicate, prefs))
       /\ calls' = calls \cup {Call(Len(passes) + 1, windowId, "query", << >>, 0)}

(***************************************************************************)
(* Event handlers.                                                         *)
(***************************************************************************)
OnBrowserAction(w) ==
  /\ Len(tabs[w]) > 0
  /\ LET prefs == PREFS
         sort == /\ prefs.pref_tabs_sort_on_browser_action = "true"
                 /\ (prefs.pref_tabs_sort_by_container = "true"
                     \/ prefs.pref_tabs_sort_by_parts # "none")
         deduplicate == prefs.pref_tabs_deduplicate_on_browser_action = "true"
     IN  IF sort \/ deduplicate
         THEN processTabs(w, sort, deduplicate, prefs)
         ELSE UNCHANGED << windows, passes, calls >>
  /\ UNCHANGED << PREFS, tabs, nextTabId >>

OnStorageChanged(newValue) ==
  /\ PREFS' = newValue
  /\ UNCHANGED << tabs, nextTabId, windows, passes, calls >>

\* The host reports a change of the i-th tab of window w: changeInfo.status
\* is "complete" when the tab has finished loading, and the handler returns
\* at once for any other change.
ChangeInfoStatuses == {"complete", "other"}

OnTabUpdated(w, i, status) ==
  /\ i \in 1..Len(tabs[w])
  /\ status = "complete" => tabs[w][i].status = "loading"
  /\ tabs' = IF status = "complete"
             THEN [tabs EXCEPT ![w][i].status = "complete"] ELSE tabs
  /\ LET prefs == PREFS
         sort == /\ prefs.pref_tabs_sort_on_update = "true"
                 /\ (prefs.pref_tabs_sort_by_container = "true"
                     \/ prefs.pref_tabs_sort_by_parts # "none")
         deduplicate == prefs.pref_tabs_deduplicate_on_update = "true"
     IN  IF status # "complete" THEN UNCHANGED << windows, passes, calls >>
         ELSE IF sort \/ deduplicate
         THEN processTabs(w, sort, deduplicate, prefs)
         ELSE UNCHANGED << windows, passes, calls >>
  /\ UNCHANGED << PREFS, nextTabId >>

(***************************************************************************)
(* Settlement of the host calls.                                           *)
(***************************************************************************)
QuerySettles(c, ok) ==
  /\ c \in calls /\ c.kind = "query"
  /\ UNCHANGED << PREFS, tabs, nextTabId >>
  /\ LET p == c.pass
         pass == passes[p]
     IN  \E argFirst \in ArgOrders :
           \E unpinnedTabs \in {queryUnpinned(pass.windowId)} :
             \E outcome \in {IF ok THEN Fetched(p, pass, unpinnedTabs, argFirst)
                                    ELSE Teardown(pass)} :
               Settle(p, c, outcome)

ContainersSettle(c, ok) ==
  /\ c \in calls /\ c.kind = "containers"
  /\ UNCHANGED << PREFS, tabs, nextTabId >>
  /\ LET p == c.pass
         pass == passes[p]
     IN  \E argFirst \in ArgOrders :
           \E outcome \in {Build(p, pass, pass.unpinnedTabs,
                                  IF ok THEN ContainersMap ELSE << >>, argFirst)} :
             Settle(p, c, outcome)

\* The chain with the second reaction taken on rejection as well.
afterMoveAlways(p, pass, ok, argFirst) == Cull(p, pass, argFirst)

\* .then(() => {...}, err => Promise.reject(err)) on the promise of
\* browser.tabs.move: the second reaction when the move is fulfilled, the
\* catch and the final handler when it is rejected.
afterMove(p, pass, ok, argFirst) ==
  IF ok THEN Cull(p, pass, argFirst) ELSE Teardown(pass)

MoveSettles(c, ok) ==
  /\ c \in calls /\ c.kind = "move"
  /\ UNCHANGED << PREFS, nextTabId >>
  /\ LET p == c.pass
         pass == passes[p]
         w == pass.windowId
         present == \A i \in 1..Len(c.ids) : c.ids[i] \in idsOf(tabs[w])
     IN  /\ IF ok
            THEN /\ present
                 /\ tabs' = [tabs EXCEPT ![w] = hostMove(tabs[w], c.ids, c.index)]
            ELSE UNCHANGED tabs
         /\ \E argFirst \in ArgOrders :
              \E outcome \in {afterMove(p, pass, ok, argFirst)} : Settle(p, c, outcome)

CreateSettles(c, ok) ==
  /\ c \in calls /\ c.kind = "create"
  /\ LET p == c.pass
         pass == passes[p]
         w == pass.windowId
     IN  /\ IF ok
            THEN /\ Len(tabs[w]) > 0
                 /\ tabs' = [tabs EXCEPT ![w] = hostCreate(tabs[w], nextTabId)]
                 /\ nextTabId' = nextTabId + 1
            ELSE UNCHANGED << tabs, nextTabId >>
         /\ Settle(p, c, Teardown(pass))
  /\ UNCHANGED PREFS

RemoveSettles(c, ok) ==
  /\ c \in calls /\ c.kind = "remove"
  /\ LET p == c.pass
         w == c.windowId
         ids == {c.ids[i] : i \in 1..Len(c.ids)}
     IN  /\ IF ok
            THEN /\ ids \subseteq idsOf(tabs[w])
                 /\ \E newActive \in activeCandidates(tabs[w], ids) :
                      tabs' = [tabs EXCEPT ![w] = hostRemove(tabs[w], ids, newActive)]
            ELSE UNCHANGED tabs
         /\ IF passes[p].pc = "remove"
            THEN Settle(p, c, Teardown(passes[p]))
            ELSE /\ calls' = calls \ {c}
                 /\ UNCHANGED << windows, passes >>
  /\ UNCHANGED << PREFS, nextTabId >>

Next ==
  \/ \E w \in WindowIds : OnBrowserAction(w)
  \/ \E newValue \in PrefProfiles : OnStorageChanged(newValue)
  \/ \E w \in WindowIds, i \in 1..(MaxTabs + MaxPasses), status \in ChangeInfoStatuses :
       OnTabUpdated(w, i, status)
  \/ \E c \in calls, ok \in BOOLEAN : QuerySettles(c, ok)
  \/ \E c \in calls, ok \in BOOLEAN : ContainersSettle(c, ok)
  \/ \E c \in calls, ok \in BOOLEAN : MoveSettles(c, ok)
  \/ \E c \in calls, ok \in BOOLEAN : CreateSettles(c, ok)
  \/ \E c \in calls, ok \in BOOLEAN : RemoveSettles(c, ok)

Spec == Init /\ [][Next]_vars

(***************************************************************************)
(* C1.  At most one pass is active per window, and a trigger for a window  *)
(* that has an active pass starts nothing: it adds no pass, issues no host *)
(* call and leaves the passes and WindowProps.windows as they are.         *)
(***************************************************************************)
TriggerOn(w) ==
  \/ OnBrowserAction(w)
  \/ \E i \in 1..(MaxTabs + MaxPasses), status \in ChangeInfoStatuses :
       OnTabUpdated(w, i, status)

OnePassPerWindow ==
  \A p \in LivePasses, q \in LivePasses :
    p # q => passes[p].windowId # passes[q].windowId

C1_BusyWindowRequestIsNoOp ==
  [][/\ OnePassPerWindow'
     /\ \A w \in windows : TriggerOn(w) => UNCHANGED << windows, passes, calls >>]_vars

\* A pass is active on a window on which a click of the browser action would
\* now call processTabs, while the model could still start a pass.
C1_Witness ==
  \E p \in LivePasses :
    /\ passes[p].windowId \in windows
    /\ Len(tabs[passes[p].windowId]) > 0
    /\ PREFS.pref_tabs_deduplicate_on_browser_action = "true"
    /\ Len(passes) < MaxPasses

(***************************************************************************)
(* Every host call eventually settles.                                     *)
(***************************************************************************)
HostSettles ==
  \E c \in calls, ok \in BOOLEAN :
    \/ QuerySettles(c, ok)
    \/ ContainersSettle(c, ok)
    \/ MoveSettles(c, ok)
    \/ CreateSettles(c, ok)
    \/ RemoveSettles(c, ok)

FairSpec == Spec /\ WF_vars(HostSettles)

(***************************************************************************)
(* C2.  Every pass that starts eventually completes, torn down: its array  *)
(* and token caches emptied; and WindowProps.windows holds exactly the     *)
(* windows of the passes that have not completed, so that the window of a  *)
(* completed pass is idle again.                                           *)
(***************************************************************************)
TornDown(p) ==
  /\ p <= Len(passes)
  /\ passes[p].pc = "done"
  /\ passes[p].tabPropsArray = << >>
  /\ passes[p].hostnameTokenCache = {}
  /\ passes[p].pathnameTokenCache = {}

WindowsAreLive == windows = {passes[p].windowId : p \in LivePasses}

C2_PassAlwaysTearsDown ==
  /\ []WindowsAreLive
  /\ \A p \in 1..MaxPasses : (p <= Len(passes)) ~> TornDown(p)

\* A pass has been torn down after its create call succeeded (the host has
\* made the placeholder tab), and no window is busy.
C2_Witness ==
  \E p \in 1..Len(passes) :
    /\ TornDown(p)
    /\ windows = {}
    /\ \E w \in WindowIds : \E i \in 1..Len(tabs[w]) : tabs[w][i].id > 2 * MaxTabs

(***************************************************************************)
(* compareTabsSimilarity and the duplicate detection on their own: the     *)
(* descriptors of one window's unpinned tabs, to which either one call of  *)
(* the comparator or the whole tabPropsArray.sort(compareTabsSimilarity)   *)
(* is applied.  The outcome is kept as the only element of passes.         *)
(***************************************************************************)
MaxLen == 3

PureKinds == {PageA, PageB, PageBlank} \X {"complete"}

PureLayouts ==
  UNION {UNION {UNION {{Layout(0, n, k, a, kinds) : kinds \in [1..(n - k) -> PureKinds]}
                       : a \in 1..n} : k \in 0..n} : n \in 1..MaxLen}

PureInit ==
  /\ PREFS \in PrefProfiles \ {PREFS_DEFAULT}
  /\ \E layout \in PureLayouts : tabs = (1 :> layout) @@ (2 :> << >>)
  /\ nextTabId = MaxLen + 1
  /\ windows = {}
  /\ passes = << >>
  /\ calls = {}

\* The tabPropsArray that processTabs builds for window w under PREFS.
Descriptors(w) ==
  With(queryUnpinned(w), LAMBDA unpinnedTabs :
    [i \in 1..Len(unpinnedTabs) |->
       TabProps(unpinnedTabs[i].tab, unpinnedTabs[i].index,
                IF PREFS.pref_tabs_sort_by_container = "true" THEN ContainersMap ELSE << >>,
                sortPrefsOf(PREFS))])

\* compareTabsSimilarity(tabPropsArray[i], tabPropsArray[j])
CompareSimilarity(i, j) ==
  /\ passes = << >>
  /\ \E tabPropsArray \in {Descriptors(1)} :
       /\ i \in 1..Len(tabPropsArray) /\ j \in 1..Len(tabPropsArray) /\ i # j
       /\ passes' = << [pc |-> "compared",
                        propsA |-> tabPropsArray[i],
                        propsB |-> tabPropsArray[j],
                        result |-> similarityResult(tabPropsArray[i], tabPropsArray[j]),
                        marked |-> similarityMarks(tabPropsArray[i], tabPropsArray[j])] >>
  /\ UNCHANGED << PREFS, tabs, nextTabId, windows, calls >>

\* tabPropsArray.sort(compareTabsSimilarity)
Deduplicate(argFirst) ==
  /\ passes = << >>
  /\ \E tabPropsArray \in {Descriptors(1)} :
       /\ Len(tabPropsArray) > 0
       /\ passes' = << [pc |-> "deduplicated",
                        argFirst |-> argFirst,
                        tabPropsArray |-> sortBySimilarity(tabPropsArray, argFirst)] >>
  /\ UNCHANGED << PREFS, tabs, nextTabId, windows, calls >>

PureNext ==
  \/ \E i \in 1..MaxLen, j \in 1..MaxLen : CompareSimilarity(i, j)
  \/ \E argFirst \in ArgOrders : Deduplicate(argFirst)

PureSpec == PureInit /\ [][PureNext]_vars

Compared == {p \in 1..Len(passes) : passes[p].pc = "compared"}
Deduplicated == {p \in 1..Len(passes) : passes[p].pc = "deduplicated"}

\* The calls of compareTabsSimilarity that reported a tie.
Ties == {p \in Compared : passes[p].result = 0}

(***************************************************************************)
(* C3.  When two descriptors tie under compareTabsSimilarity and exactly   *)
(* one of them is active, the call marks the inactive one and only that    *)
(* one, whichever is passed first; and after the duplicate detection no    *)
(* active descriptor is marked isDuplicate.                                *)
(***************************************************************************)
C3_ActiveNeverMarked ==
  /\ \A p \in Ties :
       /\ (passes[p].propsA.isActive /\ ~passes[p].propsB.isActive)
            => passes[p].marked = {passes[p].propsB.id}
       /\ (passes[p].propsB.isActive /\ ~passes[p].propsA.isActive)
            => passes[p].marked = {passes[p].propsA.id}
  /\ \A p \in Deduplicated :
       \A i \in 1..Len(passes[p].tabPropsArray) :
         passes[p].tabPropsArray[i].isActive => ~passes[p].tabPropsArray[i].isDuplicate

\* A tie in which the active descriptor is the second argument and has the
\* higher index: the first, inactive one is marked.
C3_Witness ==
  \E p \in Ties :
    /\ passes[p].propsB.isActive
    /\ ~passes[p].propsA.isActive
    /\ passes[p].propsA.index < passes[p].propsB.index
    /\ passes[p].marked = {passes[p].propsA.id}

(***************************************************************************)
(* C4.  When two inactive descriptors tie under compareTabsSimilarity, the *)
(* call marks exactly one of them, the one with the higher tab index,      *)
(* whichever is passed first.                                              *)
(***************************************************************************)
C4_HigherIndexMarked ==
  \A p \in Ties :
    (~passes[p].propsA.isActive /\ ~passes[p].propsB.isActive)
      => passes[p].marked =
           {IF passes[p].propsA.index > passes[p].propsB.index
            THEN passes[p].propsA.id ELSE passes[p].propsB.id}

(***************************************************************************)
(* C5.  After tabPropsArray.sort(compareTabsSimilarity), every group of    *)
(* descriptors that are pairwise equal under the comparator has exactly    *)
(* one member with isDuplicate = false.                                    *)
(***************************************************************************)
Survivors(array, i) ==
  {j \in 1..Len(array) : /\ similarityResult(array[i], array[j]) = 0
                         /\ ~array[j].isDuplicate}

C5_OneSurvivorPerGroup ==
  \A p \in Deduplicated :
    \A i \in 1..Len(passes[p].tabPropsArray) :
      Cardinality(Survivors(passes[p].tabPropsArray, i)) = 1

(***************************************************************************)
(* C6.  A dedupe pass over a window whose unpinned tabs are all blank and  *)
(* have finished loading leaves exactly one unpinned tab when its last     *)
(* host call has succeeded.                                                *)
(***************************************************************************)
UnpinnedOf(seq) == {i \in 1..Len(seq) : ~seq[i].pinned}

\* Pass p saw nothing but blank, complete tabs.
SawOnlyBlanks(p) ==
  /\ passes[p].tabPropsArray # << >>
  /\ \A i \in 1..Len(passes[p].tabPropsArray) :
       /\ passes[p].tabPropsArray[i].isBlank
       /\ passes[p].tabPropsArray[i].status = "complete"

\* This step is the successful settlement of the last host call of pass p.
Finishes(p) ==
  /\ passes'[p].pc = "done"
  /\ \A c \in calls' : c.pass # p
  /\ \E c \in calls : c.pass = p /\ (RemoveSettles(c, TRUE) \/ CreateSettles(c, TRUE))

C6_OneBlankRemains ==
  [][\A p \in LivePasses :
       (passes[p].deduplicate /\ SawOnlyBlanks(p) /\ Finishes(p))
         => Cardinality(UnpinnedOf(tabs'[passes[p].windowId])) = 1]_vars

(***************************************************************************)
(* C7.  No pinned tab is among the tabs a pass holds (the query result,    *)
(* the descriptors that the comparators are given) nor among the ids of a  *)
(* move or remove call.                                                    *)
(***************************************************************************)
PinnedIds(w) == {tabs[w][i].id : i \in {i \in 1..Len(tabs[w]) : tabs[w][i].pinned}}

C7_PinnedTabsUntouched ==
  /\ \A p \in LivePasses :
       /\ \A i \in 1..Len(passes[p].unpinnedTabs) :
            passes[p].unpinnedTabs[i].tab.id \notin PinnedIds(passes[p].windowId)
       /\ \A i \in 1..Len(passes[p].tabPropsArray) :
            passes[p].tabPropsArray[i].id \notin PinnedIds(passes[p].windowId)
  /\ \A c \in calls :
       c.kind \in {"move", "remove"}
         => \A i \in 1..Len(c.ids) : c.ids[i] \notin PinnedIds(c.windowId)

\* A pass on a window that has a pinned tab has its remove call in flight,
\* with a tab to remove.
C7_Witness ==
  \E c \in calls :
    /\ c.kind = "remove"
    /\ c.ids # << >>
    /\ PinnedIds(c.windowId) # {}
    /\ passes[c.pass].tabPropsArray # << >>

(***************************************************************************)
(* C8.  The step in which a pass culls issues a create call if and only if *)
(* the first unpinned tab is at index 0 and the remove call it issues      *)
(* names every tab of the pass; it issues at most one, and no other step   *)
(* issues a create call.                                                   *)
(***************************************************************************)
CullStep(p) ==
  /\ passes[p].pc \notin {"create", "remove", "done"}
  /\ passes'[p].pc \in {"create", "remove"}

IssuedBy(p, kind) == {c \in calls' \ calls : c.pass = p /\ c.kind = kind}

RemovesAll(p) ==
  \A i \in 1..Len(passes'[p].tabPropsArray) :
    \E c \in IssuedBy(p, "remove") :
      \E k \in 1..Len(c.ids) : c.ids[k] = passes'[p].tabPropsArray[i].id

C8_CreateIffWouldEmpty ==
  [][\A p \in 1..Len(passes) :
       /\ CullStep(p) =>
            /\ Cardinality(IssuedBy(p, "create")) <= 1
            /\ IssuedBy(p, "create") # {} <=> (passes'[p].index = 0 /\ RemovesAll(p))
            /\ Cardinality({k \in 1..Len(passes'[p].issued) :
                              passes'[p].issued[k] = "create"}) <= 1
       /\ ~CullStep(p) => IssuedBy(p, "create") = {}]_vars

\* A pass has issued its create call: its first unpinned tab was at index 0
\* and every tab it saw is unwanted.
C8_Witness ==
  \E p \in LivePasses :
    /\ passes[p].pc = "create"
    /\ passes[p].index = 0
    /\ \E c \in calls : c.pass = p /\ c.kind = "create"

(***************************************************************************)
(* C9.  The remove call of a pass is not in flight while its create call   *)
(* has not settled.                                                        *)
(***************************************************************************)
C9_RemoveAfterCreate ==
  \A c \in calls :
    c.kind = "remove" => ~\E d \in calls : d.kind = "create" /\ d.pass = c.pass

(***************************************************************************)
(* C10.  While a host call of a pass is in flight, the pass has not        *)
(* completed and its window is in WindowProps.windows.                     *)
(***************************************************************************)
C10_StatePresentWhileInFlight ==
  \A c \in calls : c.pass \in LivePasses /\ c.windowId \in windows

(***************************************************************************)
(* C11.  A rejected move, create or remove call is one that the promise    *)
(* chain of its pass is waiting for, so that the rejection reaches the     *)
(* .catch of the chain; and a pass issues each kind of call at most once.  *)
(***************************************************************************)
\* The promise chain of the pass that issued c waits for c to settle.
Awaited(c) == c.pass \in LivePasses /\ passes[c.pass].pc = c.kind

Rejects(c) ==
  \/ MoveSettles(c, FALSE)
  \/ CreateSettles(c, FALSE)
  \/ RemoveSettles(c, FALSE)

IssuedOnce(p) ==
  \A k \in 1..Len(passes[p].issued), l \in 1..Len(passes[p].issued) :
    passes[p].issued[k] = passes[p].issued[l] => k = l

C11_RejectionsHandled ==
  [][/\ \A c \in calls : Rejects(c) => Awaited(c)
     /\ \A p \in LivePasses : IssuedOnce(p)]_vars

(***************************************************************************)
(* C12.  When the query of a pass returns no unpinned tab, the pass ends   *)
(* in that step: it issues no host call, changes no tab, is torn down and  *)
(* its window leaves WindowProps.windows.                                  *)
(***************************************************************************)
C12_EmptyQueryIsNoOp ==
  [][\A c \in calls :
       (QuerySettles(c, TRUE) /\ queryUnpinned(c.windowId) = << >>)
         => /\ TornDown(c.pass)'
            /\ calls' = calls \ {c}
            /\ windows' = windows \ {c.windowId}
            /\ tabs' = tabs]_vars

\* A pass has ended, no call is in flight and no window has an unpinned
\* tab: the query of the pass had nothing to return.
C12_Witness ==
  /\ \E p \in 1..Len(passes) : TornDown(p)
  /\ calls = {}
  /\ windows = {}
  /\ \A w \in WindowIds : UnpinnedOf(tabs[w]) = {}

(***************************************************************************)
(* The background script over one window whose tabs may have no url.       *)
(***************************************************************************)
UrlKinds == {PageA, PageBlank, PageNoUrl} \X Statuses

UrlLayouts ==
  UNION {UNION {UNION {{Layout(0, n, k, a, kinds) : kinds \in [1..(n - k) -> UrlKinds]}
                       : a \in 1..n} : k \in 0..n} : n \in 1..MaxTabs}

UrlInit ==
  /\ PREFS = PREFS_DEFAULT
  /\ \E layout \in UrlLayouts : tabs = (1 :> layout) @@ (2 :> << >>)
  /\ nextTabId = 2 * MaxTabs + 1
  /\ windows = {}
  /\ passes = << >>
  /\ calls = {}

UrlSpec == UrlInit /\ [][Next]_vars

(***************************************************************************)
(* C13.  The reaction that builds the descriptors of a non-empty query     *)
(* result always builds one per unpinned tab, and the pass goes on to      *)
(* move or cull.                                                           *)
(***************************************************************************)
\* This step runs the reaction of pass c.pass that builds the descriptors.
BuildsDescriptors(c) ==
  \/ ContainersSettle(c, TRUE)
  \/ ContainersSettle(c, FALSE)
  \/ /\ QuerySettles(c, TRUE)
     /\ queryUnpinned(c.windowId) # << >>
     /\ passes'[c.pass].pc # "containers"

C13_DescriptorsAlwaysBuilt ==
  [][\A c \in calls :
       BuildsDescriptors(c)
         => /\ passes'[c.pass].pc \in {"move", "create", "remove"}
            /\ Len(passes'[c.pass].tabPropsArray) > 0]_vars

(***************************************************************************)
(* The sort of processTabs on its own: one window, to which the sort and   *)
(* the move of a sort pass are applied, up to twice in succession.  passes *)
(* holds the order of the window's tabs after each.                        *)
(***************************************************************************)
Page(protocol, hostname, pathname, title) ==
  [url |-> URL(protocol, hostname, pathname, << >>, << >>), title |-> Str(title)]

Https == <<"h","t","t","p","s",":">>
Http == <<"h","t","t","p",":">>
ACom == <<"a",".","c","o","m">>
BCom == <<"b",".","c","o","m">>

SortPages ==
  { Page(Https, ACom, <<"/","p","/","q","/","m","z">>, <<"m","a">>),
    Page(Https, ACom, <<"/","p","/","q","/","m","b">>, <<"m","c">>),
    Page(Https, ACom, <<"/","p","/","q","/","x">>, <<"m","b">>),
    Page(Http, ACom, <<"/","p","/","q","/","m","z">>, <<"m","a">>),
    Page(Http, BCom, <<"/">>, <<"b">>),
    Page(Https, BCom, <<"/">>, <<"m","a","b">>) }

SortKinds == SortPages \X {"complete"}

SortLayouts ==
  UNION {UNION {{Layout(0, n, k, 1, kinds) : kinds \in [1..(n - k) -> SortKinds]}
                : k \in 0..1} : n \in 1..MaxLen}

SortModes == {"host_title_path", "host_path_title", "title_host_path", "auto"}

SortProfiles ==
  {[PREFS_DEFAULT EXCEPT !.pref_tabs_sort_on_browser_action = "true",
                         !.pref_tabs_sort_by_parts = mode] : mode \in SortModes}

SortInit ==
  /\ PREFS \in SortProfiles
  /\ \E layout \in SortLayouts : tabs = (1 :> layout) @@ (2 :> << >>)
  /\ nextTabId = MaxLen + 1
  /\ windows = {}
  /\ passes = << >>
  /\ calls = {}

\* The sort pass of processTabs on window 1 with every host call
\* succeeding: tabPropsArray.sort(compareFunction), then browser.tabs.move.
SortPass(argFirst) ==
  /\ Len(passes) < 2
  /\ passes # << >> => passes[1].argFirst = argFirst
  /\ \E tabPropsArray \in {Descriptors(1)} :
       /\ Len(tabPropsArray) > 0
       /\ \E sorted \in {arraySort(tabPropsArray,
                                   IF SORT_MODES[PREFS.pref_tabs_sort_by_parts] = 4
                                   THEN "auto" ELSE "order", argFirst).array} :
            \E moved \in {hostMove(tabs[1], idList(sorted), tabPropsArray[1].index)} :
              /\ tabs' = [tabs EXCEPT ![1] = moved]
              /\ passes' = Append(passes, [pc |-> "sorted", argFirst |-> argFirst,
                                           order |-> idList(moved)])
  /\ UNCHANGED << PREFS, nextTabId, windows, calls >>

SortNext == \E argFirst \in ArgOrders : SortPass(argFirst)

SortSpec == SortInit /\ [][SortNext]_vars

(***************************************************************************)
(* C14.  A second sort pass over the tabs that a sort pass has left, in    *)
(* the same sort mode, leaves the tabs in the same order.                  *)
(***************************************************************************)
C14_SortTwiceSameOrder ==
  Len(passes) = 2 => passes[2].order = passes[1].order

\* Two sort passes have run, and the first one has moved a tab: the tabs
\* are no longer in the order of their ids, in which they started.
C14_Witness ==
  /\ Len(passes) = 2
  /\ \E k \in 1..(Len(passes[1].order) - 1) : passes[1].order[k] > passes[1].order[k + 1]

(***************************************************************************)
(* The cull of processTabs on its own: one window, to which the duplicate  *)
(* detection, the filter and the create/remove calls of a dedupe pass are  *)
(* applied, up to twice in succession, every host call succeeding and      *)
(* nothing else happening to the tabs.  passes holds what each pass        *)
(* removed and whether it created a tab.                                   *)
(***************************************************************************)
DedupeLayouts ==
  UNION {UNION {UNION {{Layout(0, n, k, a, kinds) : kinds \in [1..(n - k) -> PureKinds]}
                       : a \in 1..n} : k \in 0..1} : n \in 1..MaxLen}

DedupeInit ==
  /\ PREFS \in PrefProfiles \ {PREFS_DEFAULT}
  /\ \E layout \in DedupeLayouts : tabs = (1 :> layout) @@ (2 :> << >>)
  /\ nextTabId = MaxLen + 1
  /\ windows = {}
  /\ passes = << >>
  /\ calls = {}

\* The window after browser.tabs.create (when the pass creates) and
\* browser.tabs.remove(ids).
culled(seq, creates, ids, id, newActive) ==
  hostRemove(IF creates THEN hostCreate(seq, id) ELSE seq, ids, newActive)

\* The second reaction of a dedupe pass on window 1 and the host calls it
\* issues, all succeeding.
DedupePass(argFirst) ==
  /\ Len(passes) < 2
  /\ passes # << >> => passes[1].argFirst = argFirst
  /\ \E tabPropsArray \in {Descriptors(1)} :
       /\ Len(tabPropsArray) > 0
       /\ \E array \in {sortBySimilarity(tabPropsArray, argFirst)} :
            \E unwantedTabs \in {unwantedOf(array, TRUE)} :
              \E creates \in {tabPropsArray[1].index = 0 /\ Len(array) = Len(unwantedTabs)} :
                \E ids \in {{unwantedTabs[i].id : i \in 1..Len(unwantedTabs)}} :
                  /\ \E newActive \in activeCandidates(
                                        IF creates THEN hostCreate(tabs[1], nextTabId)
                                                   ELSE tabs[1], ids) :
                       tabs' = [tabs EXCEPT
                                  ![1] = culled(tabs[1], creates, ids, nextTabId, newActive)]
                  /\ nextTabId' = IF creates THEN nextTabId + 1 ELSE nextTabId
                  /\ passes' = Append(passes, [pc |-> "culled", argFirst |-> argFirst,
                                               removed |-> ids, created |-> creates])
  /\ UNCHANGED << PREFS, windows, calls >>

DedupeNext == \E argFirst \in ArgOrders : DedupePass(argFirst)

DedupeSpec == DedupeInit /\ [][DedupeNext]_vars

(***************************************************************************)
(* C15.  A dedupe pass over the tabs that a completed dedupe pass has      *)
(* left, nothing having happened to them in between, removes no tab and    *)
(* creates no tab.                                                         *)
(***************************************************************************)
C15_DedupeTwiceNoChange ==
  Len(passes) = 2 => passes[2].removed = {} /\ ~passes[2].created

(***************************************************************************)
(* compareTabsOrder and compareTabsOrderAuto on their own: the descriptors *)
(* of a window's two unpinned tabs, built under PREFS, to which one call   *)
(* of the compare function of line 846 is applied.  The tabs are those     *)
(* that differ from one base tab in at most MaxChanges of container,       *)
(* scheme, host, path, query, fragment and title.                          *)
(***************************************************************************)
MaxChanges == 2

Ftp == <<"f","t","p",":">>
AOrg == <<"a",".","o","r","g">>

OrderBase ==
  [cookieStoreId |-> NoContainer, protocol |-> Https, hostname |-> ACom,
   pathname |-> <<"/","x">>, search |-> << >>, hash |-> << >>, title |-> <<"a">>]

OrderFields ==
  [cookieStoreId : {NoContainer, ContainersArray[2]},
   protocol : {Https, Http, Ftp},
   hostname : {ACom, BCom, AOrg},
   pathname : {<<"/","x">>, <<"/">>, <<"/","y">>},
   search : {<< >>, <<"a">>},
   hash : {<< >>, <<"#","a">>},
   title : {<<"a">>, <<"b">>}]

changes(fields) == Cardinality({f \in DOMAIN fields : fields[f] # OrderBase[f]})

OrderTabs == {fields \in OrderFields : changes(fields) <= MaxChanges}

OrderTab(id, fields, active) ==
  [Tab(id, [url |-> URL(fields.protocol, fields.hostname, fields.pathname,
                        fields.search, fields.hash),
            title |-> Str(fields.title)], FALSE, active, "complete")
     EXCEPT !.cookieStoreId = fields.cookieStoreId]

OrderProfiles ==
  SortProfiles \cup
    {[PREFS_DEFAULT EXCEPT !.pref_tabs_sort_on_browser_action = "true",
                           !.pref_tabs_sort_by_parts = "host_title_path",
                           !.pref_tabs_sort_by_query_string = "false"]}

OrderInit ==
  /\ PREFS \in OrderProfiles
  /\ \E fieldsA \in OrderTabs, fieldsB \in OrderTabs :
       tabs = (1 :> << OrderTab(1, fieldsA, TRUE), OrderTab(2, fieldsB, FALSE) >>)
              @@ (2 :> << >>)
  /\ nextTabId = 3
  /\ windows = {}
  /\ passes = << >>
  /\ calls = {}

\* const compareFunction = sortMode === 4 ? compareTabsOrderAuto : compareTabsOrder
compareFunction(propsA, propsB) ==
  compareWith(IF SORT_MODES[PREFS.pref_tabs_sort_by_parts] = 4 THEN "auto" ELSE "order",
              propsA, propsB)

\* The tabPropsArray built from unpinnedTabs under PREFS.
descriptorsOf(unpinnedTabs) ==
  [i \in 1..Len(unpinnedTabs) |->
     TabProps(unpinnedTabs[i], i - 1,
              IF PREFS.pref_tabs_sort_by_container = "true" THEN ContainersMap ELSE << >>,
              sortPrefsOf(PREFS))]

\* compareFunction(tabPropsArray[0], tabPropsArray[1])
CompareOrder ==
  /\ passes = << >>
  /\ \E tabPropsArray \in {descriptorsOf(tabs[1])} :
       passes' = << [pc |-> "ordered",
                     propsA |-> tabPropsArray[1],
                     propsB |-> tabPropsArray[2],
                     result |-> compareFunction(tabPropsArray[1], tabPropsArray[2])] >>
  /\ UNCHANGED << PREFS, tabs, nextTabId, windows, calls >>

OrderNext == CompareOrder

OrderSpec == OrderInit /\ [][OrderNext]_vars

\* hasHTTPScheme: protocol === "https:" || protocol === "http:"
hasHTTPScheme(tab) == tab.url.protocol \in {Str(Https), Str(Http)}

\* The tabs with one and the same scheme.
schemeless(unpinnedTabs) ==
  [i \in 1..Len(unpinnedTabs) |-> [unpinnedTabs[i] EXCEPT !.url.protocol = Str(Https)]]

(***************************************************************************)
(* C18.  When both tabs use http or https, the compare function of a sort  *)
(* orders them as it orders the same two tabs with one and the same        *)
(* scheme: in particular an http tab and an https tab that agree in        *)
(* everything else compare equal.                                          *)
(***************************************************************************)
C18_SchemeSkippedForWebTabs ==
  (/\ passes # << >>
   /\ hasHTTPScheme(tabs[1][1])
   /\ hasHTTPScheme(tabs[1][2]))
    => LET blind == descriptorsOf(schemeless(tabs[1]))
       IN  Sign(passes[1].result) = Sign(compareFunction(blind[1], blind[2]))

\* if (!propsA.hasHTTPScheme || !propsB.hasHTTPScheme)
\*   result = propsA.scheme.localeCompare(propsB.scheme)
schemeClass(tabA, tabB) ==
  IF ~hasHTTPScheme(tabA) \/ ~hasHTTPScheme(tabB)
  THEN localeCompare(tabA.url.protocol, tabB.url.protocol)
  ELSE 0

\* The comparisons that compareTabs of the older variant makes one after
\* the other, for the two tabs and their descriptors, in sort mode sortMode.
compareTabsResults(sortMode, tabA, tabB, propsA, propsB) ==
  LET title == << localeCompare(propsA.title, propsB.title) >>
      titleIf(mode) == IF sortMode = mode THEN title ELSE << >>
      hostnameTokensA == getHostnameTokens(propsA.hostname)
      hostnameTokensB == getHostnameTokens(propsB.hostname)
  IN  << schemeClass(tabA, tabB) >>
      \o titleIf(3)
      \o << compareTokens(hostnameTokensA[2], hostnameTokensB[2]),
            compareTokens(hostnameTokensA[1], hostnameTokensB[1]),
            (IF propsA.pathname # << >> THEN 1 ELSE 0)
              - (IF propsB.pathname # << >> THEN 1 ELSE 0) >>
      \o titleIf(1)
      \o << compareTokens(propsA.pathnameTokens, propsB.pathnameTokens),
            localeCompare(propsA.queryString, propsB.queryString),
            localeCompare(propsA.hash, propsB.hash) >>
      \o titleIf(2)

\* The container comparison, then those of compareTabs: the first of them
\* that is not zero.
containerThenCompareTabs(sortMode, tabA, tabB, propsA, propsB) ==
  FirstNonZero(<< propsA.criteriaBase[1].val - propsB.criteriaBase[1].val >>
               \o compareTabsResults(sortMode, tabA, tabB, propsA, propsB))

sortModeOf(prefs) == SORT_MODES[prefs.pref_tabs_sort_by_parts]

(***************************************************************************)
(* C19.  In the sort modes host_title_path and host_path_title the compare *)
(* function returns the sign of the first non-equal criterion of container,*)
(* scheme class, domain tokens, TLD tokens, has-pathname, [title,] path    *)
(* tokens, query string, fragment [, title], the title being compared      *)
(* after has-pathname in host_title_path and last in host_path_title; it   *)
(* returns 0 iff all of them are equal.                                    *)
(***************************************************************************)
C19_HostModesSequence ==
  (passes # << >> /\ sortModeOf(PREFS) \in {1, 2})
    => Sign(passes[1].result)
         = Sign(containerThenCompareTabs(sortModeOf(PREFS), tabs[1][1], tabs[1][2],
                                         passes[1].propsA, passes[1].propsB))

(***************************************************************************)
(* C20.  In the sort mode title_host_path the compare function returns the *)
(* sign of the first non-equal criterion of container, scheme class,       *)
(* title, domain tokens, TLD tokens, has-pathname, path tokens, query      *)
(* string, fragment.                                                       *)
(***************************************************************************)
C20_TitleModeSequence ==
  (passes # << >> /\ sortModeOf(PREFS) = 3)
    => Sign(passes[1].result)
         = Sign(containerThenCompareTabs(3, tabs[1][1], tabs[1][2],
                                         passes[1].propsA, passes[1].propsB))

\* The unpinned tabs of a window, in index order.
unpinnedIn(seq) ==
  LET unpinned(tab) == ~tab.pinned
  IN  SelectSeq(seq, unpinned)

\* The two tabs have the same lowerDomainTokens and the same tldTokens.
sameDomain(tabA, tabB) ==
  getHostnameTokens(tabA.url.hostname) = getHostnameTokens(tabB.url.hostname)

\* No tab lies between two tabs of the same domain and TLD tokens without
\* having these tokens itself.
Contiguous(seq) ==
  \A i \in 1..Len(seq), k \in 1..Len(seq) :
    (i < k /\ sameDomain(seq[i], seq[k]))
      => \A j \in i..k : sameDomain(seq[i], seq[j])

(***************************************************************************)
(* C16.  After a sort pass in sort mode host_title_path the unpinned tabs  *)
(* that have the same domain tokens and the same TLD tokens are next to    *)
(* each other.                                                             *)
(***************************************************************************)
C16_HostTitlePathContiguous ==
  (passes # << >> /\ sortModeOf(PREFS) = 1) => Contiguous(unpinnedIn(tabs[1]))

(***************************************************************************)
(* C17.  After a sort pass in any of the four sort modes the unpinned tabs *)
(* that have the same domain tokens and the same TLD tokens are next to    *)
(* each other.                                                             *)
(***************************************************************************)
C17_EveryModeContiguous ==
  (passes # << >> /\ sortModeOf(PREFS) \in 1..4) => Contiguous(unpinnedIn(tabs[1]))

(***************************************************************************)
(* The sort pass on windows whose tabs are in containers: the tabs of one  *)
(* window are in no container or in one of the host's containers, and the  *)
(* sort and the move of a sort pass are applied as in SortSpec.            *)
(***************************************************************************)
CookieStoreIds == {NoContainer} \cup {ContainersArray[i] : i \in 1..Len(ContainersArray)}

ContainerKinds == {PageA, PageB} \X CookieStoreIds

ContainerLayouts ==
  UNION {{[i \in 1..n |->
             [Tab(i, kinds[i][1], FALSE, i = 1, "complete")
                EXCEPT !.cookieStoreId = kinds[i][2]]]
            : kinds \in [1..n -> ContainerKinds]} : n \in 1..MaxLen}

\* The preferences under which the browser action sorts: by container
\* alone (sort mode none), by container and parts, by parts alone.
ContainerProfiles ==
  {[PREFS_DEFAULT EXCEPT !.pref_tabs_sort_on_browser_action = "true"],
   [PREFS_DEFAULT EXCEPT !.pref_tabs_sort_on_browser_action = "true",
                         !.pref_tabs_sort_by_parts = "host_title_path"],
   [PREFS_DEFAULT EXCEPT !.pref_tabs_sort_on_browser_action = "true",
                         !.pref_tabs_sort_by_parts = "host_title_path",
                         !.pref_tabs_sort_by_container = "false"]}

ContainerInit ==
  /\ PREFS \in ContainerProfiles
  /\ \E layout \in ContainerLayouts : tabs = (1 :> layout) @@ (2 :> << >>)
  /\ nextTabId = MaxLen + 1
  /\ windows = {}
  /\ passes = << >>
  /\ calls = {}

ContainerSpec == ContainerInit /\ [][SortNext]_vars

\* The tabs at positions i < k of seq are in the order of their ids, in
\* which the window started.
inIdOrder(seq, i, k) == seq[i].id < seq[k].id

C22_OrderIsTotalPreorder ==
  LET tabPropsArray == descriptorsOf(unpinnedIn(tabs[1]))
      cmp(a, b) == compareFunction(tabPropsArray[a], tabPropsArray[b])
      all == 1..Len(tabPropsArray)
  IN  \A a \in all, b \in all :
        /\ Sign(cmp(a, b)) = 0 - Sign(cmp(b, a))
        /\ \A c \in all : (cmp(a, b) <= 0 /\ cmp(b, c) <= 0) => cmp(a, c) <= 0

\* The two descriptors agree in container index, scheme, domain tokens and
\* TLD tokens: the criteria of sort mode auto (lines 582-587).
sameAutoCriteria(propsA, propsB) ==
  \A index \in 1..4 : propsA.criteriaBase[index] = propsB.criteriaBase[index]

\* const hasPathname = pathnameTrimmed !== ""
hasPathnameOf(props) == props.pathname # << >>

(***************************************************************************)
(* C23.  In sort mode auto, of two tabs with the same container, scheme,   *)
(* domain tokens and TLD tokens, the one without a pathname sorts before   *)
(* the one with a pathname, whatever their titles.                         *)
(***************************************************************************)
C23_AutoPathlessFirst ==
  (/\ passes # << >>
   /\ sortModeOf(PREFS) = 4
   /\ sameAutoCriteria(passes[1].propsA, passes[1].propsB))
    => /\ (~hasPathnameOf(passes[1].propsA) /\ hasPathnameOf(passes[1].propsB))
            => passes[1].result < 0
       /\ (hasPathnameOf(passes[1].propsA) /\ ~hasPathnameOf(passes[1].propsB))
            => passes[1].result > 0

(***************************************************************************)
(* compareTabsSimilarity on its own: one call on the descriptors of the    *)
(* two tabs of OrderInit, built under PREFS.                               *)
(***************************************************************************)
CompareSimilar ==
  /\ passes = << >>
  /\ \E tabPropsArray \in {descriptorsOf(tabs[1])} :
       passes' = << [pc |-> "similar",
                     propsA |-> tabPropsArray[1],
                     propsB |-> tabPropsArray[2],
                     result |-> similarityResult(tabPropsArray[1], tabPropsArray[2])] >>
  /\ UNCHANGED << PREFS, tabs, nextTabId, windows, calls >>

SimilarityNext == CompareSimilar

SimilaritySpec == OrderInit /\ [][SimilarityNext]_vars

\* The containers map of a pass under PREFS (<< >>: null).
containersOf(prefs) ==
  IF prefs.pref_tabs_sort_by_container = "true" THEN ContainersMap ELSE << >>

\* The fields of the descriptor of tabA match those of the descriptor of
\* tabB: container index, scheme, domain and TLD tokens, pathless-ness,
\* path tokens, query string, fragment, title.
fieldsMatch(tabA, tabB, propsA, propsB) ==
  /\ containerIndexOf(containersOf(PREFS), tabA.cookieStoreId)
       = containerIndexOf(containersOf(PREFS), tabB.cookieStoreId)
  /\ tabA.url.protocol = tabB.url.protocol
  /\ getHostnameTokens(propsA.hostname) = getHostnameTokens(propsB.hostname)
  /\ hasPathnameOf(propsA) = hasPathnameOf(propsB)
  /\ propsA.pathnameTokens = propsB.pathnameTokens
  /\ propsA.queryString = propsB.queryString
  /\ propsA.hash = propsB.hash
  /\ propsA.title = propsB.title

\* The result of compareTabsSimilarity on the descriptors that sort mode
\* sortMode gives the two tabs.
similarityUnder(sortMode, tabA, tabB) ==
  LET sortPrefs == [sortPrefsOf(PREFS) EXCEPT !.sortMode = sortMode]
  IN  similarityResult(TabProps(tabA, 0, containersOf(PREFS), sortPrefs),
                       TabProps(tabB, 1, containersOf(PREFS), sortPrefs))

(***************************************************************************)
(* C24.  compareTabsSimilarity returns 0 for two descriptors iff their     *)
(* container index, scheme, domain tokens, TLD tokens, pathless-ness, path *)
(* tokens, query string, fragment and title all match, and its result for  *)
(* two tabs is the same under every sort mode.                             *)
(***************************************************************************)
C24_SimilarityIffFieldsMatch ==
  passes # << >>
    => /\ passes[1].result = 0
            <=> fieldsMatch(tabs[1][1], tabs[1][2], passes[1].propsA, passes[1].propsB)
       /\ \A sortMode \in 0..4 :
            similarityUnder(sortMode, tabs[1][1], tabs[1][2]) = passes[1].result

\* The comparator has told apart two tabs that differ in their titles only,
\* the last of the fields it compares.
C24_Witness ==
  /\ passes # << >>
  /\ passes[1].result # 0
  /\ passes[1].propsA.title # passes[1].propsB.title
  /\ [passes[1].propsA.criteriaBase EXCEPT ![9] = passes[1].propsB.criteriaBase[9]]
       = passes[1].propsB.criteriaBase

\* The 0-based position of a container in the host's enumeration.
positionOf(cookieStoreId) ==
  (CHOOSE i \in 1..Len(ContainersArray) : ContainersArray[i] = cookieStoreId) - 1

(***************************************************************************)
(* C25.  When the pass has the containers map, the containerIndex of a     *)
(* descriptor is the position of the tab's container in the enumeration    *)
(* for a tab in a container, and -1 for a tab in no container.             *)
(***************************************************************************)
C25_ContainerIndexIsPosition ==
  PREFS.pref_tabs_sort_by_container = "true"
    => LET tabPropsArray == descriptorsOf(tabs[1])
       IN  \A i \in 1..Len(tabs[1]) :
             tabPropsArray[i].criteriaBase[1].val
               = IF tabs[1][i].cookieStoreId = NoContainer THEN -1
                 ELSE positionOf(tabs[1][i].cookieStoreId)

(***************************************************************************)
(* compareTokens on its own: two token arrays of up to MaxTokens tokens,   *)
(* to which one call of compareTokens is applied.  passes holds the two    *)
(* arrays and, after the call, its result.                                 *)
(***************************************************************************)
MaxTokens == 3

Tokens == {Str(<< >>), Str(<<"a">>), Str(<<"b">>), Str(<<"a","b">>)}

TokenArrays == UNION {[1..n -> Tokens] : n \in 0..MaxTokens}

TokenInit ==
  /\ PREFS = PREFS_DEFAULT
  /\ tabs = (1 :> << >>) @@ (2 :> << >>)
  /\ nextTabId = 1
  /\ windows = {}
  /\ \E tokensA \in TokenArrays, tokensB \in TokenArrays :
       passes = << [pc |-> "tokens", tokensA |-> tokensA, tokensB |-> tokensB,
                    result |-> 0] >>
  /\ calls = {}

\* compareTokens(tokensA, tokensB)
CompareTokens ==
  /\ passes[1].pc = "tokens"
  /\ passes' = << [passes[1] EXCEPT
                     !.pc = "compared",
                     !.result = compareTokens(passes[1].tokensA, passes[1].tokensB)] >>
  /\ UNCHANGED << PREFS, tabs, nextTabId, windows, calls >>

TokenNext == CompareTokens

TokenSpec == TokenInit /\ [][TokenNext]_vars

\* The indices at which both arrays have a token and the tokens differ.
differAt(tokensA, tokensB) ==
  {index \in 1..Min(Len(tokensA), Len(tokensB)) : tokensA[index] # tokensB[index]}

(***************************************************************************)
(* C26.  compareTokens(A, B) has the sign of the comparison of the tokens  *)
(* at the first index where A and B differ; when there is none, it is      *)
(* negative if A is shorter than B, positive if A is longer, and 0 if they *)
(* have the same length.                                                   *)
(***************************************************************************)
C26_TokensLexicographic ==
  passes[1].pc = "compared"
    => LET tokensA == passes[1].tokensA
           tokensB == passes[1].tokensB
           differ == differAt(tokensA, tokensB)
       IN  Sign(passes[1].result)
             = IF differ # {}
               THEN localeCompare(tokensA[Least(differ)], tokensB[Least(differ)])
               ELSE Sign(Len(tokensA) - Len(tokensB))

\* compareTokens has been applied to an array and a longer one that begins
\* with it.
C26_Witness ==
  /\ passes[1].pc = "compared"
  /\ passes[1].result < 0
  /\ Len(passes[1].tokensA) > 0
  /\ Len(passes[1].tokensA) < Len(passes[1].tokensB)
  /\ differAt(passes[1].tokensA, passes[1].tokensB) = {}

(***************************************************************************)
(* getHostnameTokens on its own: a hostname of up to MaxLabels labels, to  *)
(* which one call of getHostnameTokens is applied.  passes holds the       *)
(* labels, the hostname made of them and, after the call, its result.      *)
(***************************************************************************)
MaxLabels == 4

Labels ==
  {Str(<< >>), Str(<<"a">>), Str(<<"c","o">>), Str(<<"c","o","m">>),
   Str(<<"i","n","f","o">>)}

\* The hostname whose labels are labels[1], ..., labels[n].
RECURSIVE hostnameOf(_, _)
hostnameOf(labels, n) ==
  IF n = 1 THEN labels[1]
  ELSE hostnameOf(labels, n - 1) \o << Ch(".") >> \o labels[n]

HostnameInit ==
  /\ PREFS = PREFS_DEFAULT
  /\ tabs = (1 :> << >>) @@ (2 :> << >>)
  /\ nextTabId = 1
  /\ windows = {}
  /\ \E n \in 1..MaxLabels : \E labels \in [1..n -> Labels] :
       passes = << [pc |-> "hostname", labels |-> labels,
                    hostname |-> hostnameOf(labels, n),
                    hostnameTokens |-> << >>] >>
  /\ calls = {}

\* windowProps.getHostnameTokens(hostname)
GetHostnameTokens ==
  /\ passes[1].pc = "hostname"
  /\ passes' = << [passes[1] EXCEPT
                     !.pc = "tokenized",
                     !.hostnameTokens = getHostnameTokens(passes[1].hostname)] >>
  /\ UNCHANGED << PREFS, tabs, nextTabId, windows, calls >>

HostnameNext == GetHostnameTokens

HostnameSpec == HostnameInit /\ [][HostnameNext]_vars

(***************************************************************************)
(* C27.  getHostnameTokens returns the TLD tokens and the domain tokens:   *)
(* together they are the labels of the hostname in reversed order, and the *)
(* TLD tokens are the first two of them when there are more than two       *)
(* labels and the second reversed label has at most 3 characters, and the  *)
(* first alone otherwise.                                                  *)
(***************************************************************************)
C27_HostnameTokensSplit ==
  passes[1].pc = "tokenized"
    => LET labels == passes[1].labels
           n == Len(labels)
           reversed == [i \in 1..n |-> labels[n + 1 - i]]
           two == n > 2 /\ Len(reversed[2]) <= 3
       IN  /\ passes[1].hostnameTokens[1] \o passes[1].hostnameTokens[2] = reversed
           /\ Len(passes[1].hostnameTokens[1]) = IF two THEN 2 ELSE 1

\* The tokenizer has been applied to a hostname like www.example.co.uk:
\* four labels, two of them in the TLD tokens.
C27_Witness ==
  /\ passes[1].pc = "tokenized"
  /\ Len(passes[1].labels) = 4
  /\ Len(passes[1].hostnameTokens[1]) = 2
  /\ Len(passes[1].hostnameTokens[2]) = 2

\* The step starts pass p with the preferences in force: prefs is a copy of
\* PREFS, and sort and deduplicate are derived from it for one of the two
\* triggers.
StartsWithCurrent(p) ==
  /\ passes'[p].prefs = PREFS
  /\ \/ /\ passes'[p].sort
             = (/\ PREFS.pref_tabs_sort_on_browser_action = "true"
                /\ (PREFS.pref_tabs_sort_by_container = "true"
                    \/ PREFS.pref_tabs_sort_by_parts # "none"))
        /\ passes'[p].deduplicate = (PREFS.pref_tabs_deduplicate_on_browser_action = "true")
     \/ /\ passes'[p].sort
             = (/\ PREFS.pref_tabs_sort_on_update = "true"
                /\ (PREFS.pref_tabs_sort_by_container = "true"
                    \/ PREFS.pref_tabs_sort_by_parts # "none"))
        /\ passes'[p].deduplicate = (PREFS.pref_tabs_deduplicate_on_update = "true")

\* The descriptors that the step gives pass p are those of unpinnedTabs
\* under the sort mode and the query-string flag of the pass's own prefs.
BuiltFrom(p, unpinnedTabs, containers) ==
  LET prefs == passes[p].prefs
      sortPrefs == [sortMode |-> SORT_MODES[prefs.pref_tabs_sort_by_parts],
                    sortByQueryString |-> prefs.pref_tabs_sort_by_query_string = "true"]
      built == passes'[p].tabPropsArray
  IN  /\ Len(built) = Len(unpinnedTabs)
      /\ \A i \in 1..Len(unpinnedTabs) : \E k \in 1..Len(built) :
           [built[k] EXCEPT !.isDuplicate = FALSE]
             = TabProps(unpinnedTabs[i].tab, unpinnedTabs[i].index, containers, sortPrefs)

\* What a step does to pass p when it runs one of its stages.
StageUsesOwnPrefs(p) ==
  LET pass == passes[p]
      next == passes'[p]
      byContainer == pass.prefs.pref_tabs_sort_by_container = "true"
  IN  /\ next.pc # "done"
        => /\ next.prefs = pass.prefs
           /\ next.sort = pass.sort
           /\ next.deduplicate = pass.deduplicate
      /\ (pass.pc = "query" /\ next.pc # "query" /\ next.pc # "done")
        => (next.pc = "containers") = (HasContextualIdentities /\ byContainer)
      /\ (pass.pc = "query" /\ next.pc \in {"move", "create", "remove"})
        => /\ BuiltFrom(p, queryUnpinned(pass.windowId), << >>)
           /\ (next.pc = "move") = pass.sort
      /\ (pass.pc = "containers" /\ next.pc \in {"move", "create", "remove"})
        => /\ \E containers \in {ContainersMap, << >>} :
                BuiltFrom(p, pass.unpinnedTabs, containers)
           /\ (next.pc = "move") = pass.sort
      /\ (pass.pc = "move" /\ next.pc \in {"create", "remove"})
        => \A i \in 1..Len(next.tabPropsArray) :
             next.tabPropsArray[i].isDuplicate => pass.deduplicate

BlankKinds == ({PageA, PageB} \X {"complete"}) \cup ({PageBlank} \X Statuses)

BlankLayouts ==
  UNION {UNION {UNION {{Layout(0, n, k, a, kinds) : kinds \in [1..(n - k) -> BlankKinds]}
                       : a \in {1, n}} : k \in 0..1} : n \in 1..(MaxLen + 1)}

BlankProfiles ==
  {[PREFS_DEFAULT EXCEPT !.pref_tabs_sort_on_browser_action = "true",
                         !.pref_tabs_deduplicate_on_browser_action = deduplicate,
                         !.pref_tabs_sort_by_parts = "host_title_path"]
     : deduplicate \in {"true", "false"}}

BlankInit ==
  /\ PREFS \in BlankProfiles
  /\ \E layout \in BlankLayouts : tabs = (1 :> layout) @@ (2 :> << >>)
  /\ nextTabId = MaxLen + 2
  /\ windows = {}
  /\ passes = << >>
  /\ calls = {}

\* processTabs(windowId, sort, deduplicate) as onBrowserAction calls it
\* for window 1: sort, move, detect duplicates, filter, create/remove.
SortAndCull(argFirst) ==
  /\ passes = << >>
  /\ \E tabPropsArray \in {Descriptors(1)} :
       /\ Len(tabPropsArray) > 0
       /\ \E index \in {tabPropsArray[1].index} :
          \E deduplicate \in {PREFS.pref_tabs_deduplicate_on_browser_action = "true"} :
          \E sorted \in {arraySort(tabPropsArray, "order", argFirst).array} :
          \E moved \in {hostMove(tabs[1], idList(sorted), index)} :
          \E array \in {IF deduplicate THEN sortBySimilarity(sorted, argFirst) ELSE sorted} :
          \E unwantedTabs \in {unwantedOf(array, deduplicate)} :
          \E creates \in {index = 0 /\ Len(array) = Len(unwantedTabs)} :
          \E ids \in {{unwantedTabs[i].id : i \in 1..Len(unwantedTabs)}} :
            /\ \E newActive \in activeCandidates(
                                  IF creates THEN hostCreate(moved, nextTabId) ELSE moved,
                                  ids) :
                 tabs' = [tabs EXCEPT ![1] = culled(moved, creates, ids, nextTabId, newActive)]
            /\ nextTabId' = IF creates THEN nextTabId + 1 ELSE nextTabId
            /\ passes' = << [pc |-> "culled", argFirst |-> argFirst, index |-> index,
                             sorted |-> sorted, order |-> idList(moved),
                             removed |-> ids, created |-> creates] >>
  /\ UNCHANGED << PREFS, windows, calls >>

BlankNext == \E argFirst \in ArgOrders : SortAndCull(argFirst)

BlankSpec == BlankInit /\ [][BlankNext]_vars

\* The scheme of the tab a descriptor was built from, as its criteria hold it.
schemeOf(tabProps) == tabProps.criteriaBase[2].val

isAboutBlank(tabProps) == tabProps.isBlank /\ schemeOf(tabProps) = AboutBlank.protocol

isWeb(tabProps) == schemeOf(tabProps) \in {Str(Http), Str(Https)}

\* The about:blank tabs among the descriptors of a pass.
blanksOf(sorted) == {i \in 1..Len(sorted) : isAboutBlank(sorted[i])}

(***************************************************************************)
(* C29, as the specification states it.  Under host_title_path an          *)
(* about:blank tab sorts after all http(s) tabs of the window, and, when   *)
(* it is the only blank tab and not at index 0, the cull removes it.       *)
(***************************************************************************)
C29_BlankSortsLastAndIsCulled ==
  passes # << >> =>
    \E sorted \in {passes[1].sorted} :
      /\ \A i \in blanksOf(sorted) : \A k \in 1..Len(sorted) :
           isWeb(sorted[k]) => k < i
      /\ \A i \in blanksOf(sorted) :
           (blanksOf(sorted) = {i} /\ sorted[i].index # 0)
             => sorted[i].id \in passes[1].removed

(***************************************************************************)
(* C29, amended.  Under host_title_path an about:blank tab sorts before    *)
(* all http(s) tabs of its container index, and the cull removes it        *)
(* exactly when its load status is complete.                               *)
(***************************************************************************)
C29_BlankSortsFirstAndIsCulledWhenComplete ==
  passes # << >> =>
    \E sorted \in {passes[1].sorted} :
      /\ \A i \in blanksOf(sorted) : \A k \in 1..Len(sorted) :
           (isWeb(sorted[k]) /\ sorted[k].criteriaBase[1].val = sorted[i].criteriaBase[1].val)
             => i < k
      /\ \A i \in blanksOf(sorted) :
           sorted[i].id \in passes[1].removed <=> sorted[i].status = "complete"

\* The pass has run on a window with a pinned tab in front, two web tabs
\* and, behind them, the only about:blank tab, which has finished loading:
\* the sort has put it in front of the web tabs and the cull has removed it.
C29_Witness ==
  /\ passes # << >>
  /\ \E sorted \in {passes[1].sorted} :
       /\ passes[1].index = 1
       /\ Len(sorted) = 3
       /\ blanksOf(sorted) = {1}
       /\ sorted[1].index = 3
       /\ sorted[1].status = "complete"
       /\ isWeb(sorted[2]) /\ isWeb(sorted[3])
       /\ sorted[1].id \in passes[1].removed


(***************************************************************************)
(* C30.  The ids a pass hands to browser.tabs.remove are those of exactly  *)
(* the tabs it queried whose load status is "complete" and that are blank  *)
(* or, when the pass deduplicates, marked isDuplicate: no tab whose status *)
(* is not complete is among them, and no non-blank tab when the pass does  *)
(* not deduplicate.  The pass makes the call in its cull step and in no    *)
(* other step.                                                             *)
(***************************************************************************)
removedBy(p) ==
  UNION {{c.ids[k] : k \in 1..Len(c.ids)} : c \in IssuedBy(p, "remove")}

descriptorsIn(p) == {passes'[p].tabPropsArray[i] : i \in 1..Len(passes'[p].tabPropsArray)}

C30_RemovesCompleteBlankOrDuplicate ==
  [][\A p \in 1..Len(passes) :
       /\ CullStep(p) =>
            /\ Cardinality(IssuedBy(p, "remove")) = 1
            /\ removedBy(p) =
                 {tabProps.id : tabProps \in
                    {d \in descriptorsIn(p) :
                       /\ d.status = "complete"
                       /\ (d.isBlank \/ (passes[p].deduplicate /\ d.isDuplicate))}}
            /\ \A d \in descriptorsIn(p) :
                 /\ d.status # "complete" => d.id \notin removedBy(p)
                 /\ (~passes[p].deduplicate /\ ~d.isBlank) => d.id \notin removedBy(p)
       /\ ~CullStep(p) => IssuedBy(p, "remove") = {}]_vars

\* A deduplicating pass is past its cull step, in which it has kept a tab
\* that was still loading and asked for the removal of a duplicate that is
\* not blank.
C30_Witness ==
  \E p \in LivePasses :
    /\ passes[p].pc \in {"create", "remove"}
    /\ passes[p].deduplicate
    /\ \E c \in calls :
         /\ c.pass = p /\ c.kind = "remove"
         /\ \E i, k \in 1..Len(passes[p].tabPropsArray) :
              /\ passes[p].tabPropsArray[i].status = "loading"
              /\ \A n \in 1..Len(c.ids) : c.ids[n] # passes[p].tabPropsArray[i].id
              /\ passes[p].tabPropsArray[k].isDuplicate
              /\ ~passes[p].tabPropsArray[k].isBlank
              /\ \E n \in 1..Len(c.ids) : c.ids[n] = passes[p].tabPropsArray[k].id


(***************************************************************************)
(* C31.  When the move call of a pass is rejected, the pass ends in that   *)
(* step: it issues no create and no remove call, no tab changes, and the   *)
(* pass, once ended, issues no call at all.                                *)
(***************************************************************************)
\* The move call c is settled in the step and the tabs are not where the
\* fulfilled call leaves them: the host has rejected it.
MoveRejected(c) ==
  /\ c.kind = "move" /\ c \notin calls'
  /\ \/ \E i \in 1..Len(c.ids) : c.ids[i] \notin idsOf(tabs[c.windowId])
     \/ tabs'[c.windowId] # hostMove(tabs[c.windowId], c.ids, c.index)

IssuedByPass(p) == {c \in calls' \ calls : c.pass = p}

C31_RejectedMoveAbortsPass ==
  [][/\ \A c \in calls :
          MoveRejected(c) =>
            /\ passes'[c.pass].pc = "done"
            /\ IssuedByPass(c.pass) = {}
            /\ tabs' = tabs /\ nextTabId' = nextTabId
     /\ \A p \in 1..Len(passes) :
          /\ (passes[p].pc = "move" /\ passes'[p].pc = "done") =>
               (IssuedByPass(p) = {} /\ tabs' = tabs)
          /\ passes[p].pc = "done" => (IssuedByPass(p) = {} /\ passes'[p].pc = "done")]_vars

\* The state a rejected move leaves: the only pass there has been has
\* ended with no call of its own in flight, under preferences that sort
\* and deduplicate, and its window still holds, out of order and behind a
\* web tab, a blank tab that has finished loading.
C31_Witness ==
  /\ Len(passes) = 1
  /\ passes[1].pc = "done"
  /\ calls = {}
  /\ PREFS.pref_tabs_sort_on_browser_action = "true"
  /\ PREFS.pref_tabs_deduplicate_on_browser_action = "true"
  /\ Len(tabs[1]) = 2
  /\ tabs[1][1].url = PageA.url /\ tabs[1][2].url = PageBlank.url
  /\ tabs[1][2].status = "complete"
  /\ ~tabs[1][1].pinned /\ ~tabs[1][2].pinned


(***************************************************************************)
(* C32.  A pass never leaves a window without tabs: no step takes the      *)
(* last tabs of a window away.                                             *)
(***************************************************************************)
C32_WindowKeepsATab ==
  [][\A w \in WindowIds : Len(tabs[w]) > 0 => Len(tabs'[w]) > 0]_vars


(***************************************************************************)
(* The add-on left to itself: one window, preferences under which          *)
(* onTabUpdated starts passes, and no event but the ones the host raises   *)
(* when a tab finishes loading.  So that the chain of passes can go on     *)
(* for ever in a finite model, the completed passes are forgotten and the  *)
(* tabs renumbered whenever no call is in flight, and a window holds at    *)
(* most MaxTabs + MaxPasses tabs.                                          *)
(***************************************************************************)
UpdateProfiles == PrefProfiles \ {PREFS_DEFAULT}

UpdateInit ==
  /\ PREFS \in UpdateProfiles
  /\ \E n \in 1..MaxTabs : \E layout \in Layouts(0, n) :
       tabs = (1 :> layout) @@ (2 :> << >>)
  /\ nextTabId = 2 * MaxTabs + 1
  /\ windows = {}
  /\ passes = << >>
  /\ calls = {}

\* tabs.onUpdated with changeInfo.status "complete" for a tab of window 1.
TabCompletes == \E i \in 1..(MaxTabs + MaxPasses) : OnTabUpdated(1, i, "complete")

\* The host settles a call; it creates a tab only in a window with room.
UpdateSettles ==
  \E c \in calls, ok \in BOOLEAN :
    \/ QuerySettles(c, ok)
    \/ ContainersSettle(c, ok)
    \/ MoveSettles(c, ok)
    \/ (ok => Len(tabs[c.windowId]) < MaxTabs + MaxPasses) /\ CreateSettles(c, ok)
    \/ RemoveSettles(c, ok)

\* Nothing of a completed pass is reachable: with no call in flight the
\* record of the passes starts afresh, and the tabs are known by their
\* positions.
Forget ==
  /\ passes # << >> /\ LivePasses = {} /\ calls = {}
  /\ passes' = << >>
  /\ tabs' = [w \in WindowIds |->
                [i \in 1..Len(tabs[w]) |-> [tabs[w][i] EXCEPT !.id = i]]]
  /\ nextTabId' = 2 * MaxTabs + 1
  /\ UNCHANGED << PREFS, windows, calls >>

UpdateNext == TabCompletes \/ UpdateSettles \/ Forget

UpdateSpec == UpdateInit /\ [][UpdateNext]_vars /\ WF_vars(UpdateNext)

(***************************************************************************)
(* C33.  The chain of passes that tab completions start comes to an end:   *)
(* from some state on no pass is active and no call is in flight.          *)
(***************************************************************************)
C33_UpdateChainStops == <>[](LivePasses = {} /\ calls = {})


(***************************************************************************)
(* C34.  A pass that does not sort issues no move call, and nothing but    *)
(* the settlement of a move call changes the order of the tabs of a        *)
(* window: the duplicate detection of a deduplicate-only pass reorders     *)
(* the descriptors of the pass and no tab.                                 *)
(***************************************************************************)
\* The ids of seq that are in ids, in the order of seq.
idsAmong(seq, ids) ==
  LET among(id) == id \in ids
  IN  SelectSeq([i \in 1..Len(seq) |-> seq[i].id], among)

OrderKept(w) ==
  idsAmong(tabs[w], idsOf(tabs'[w])) = idsAmong(tabs'[w], idsOf(tabs[w]))

C34_NoMoveWithoutSort ==
  [][/\ \A c \in calls' : c.kind = "move" => passes'[c.pass].sort
     /\ \A p \in 1..Len(passes) :
          (passes[p].pc # "done" /\ ~passes[p].sort) => IssuedBy(p, "move") = {}
     /\ (~\E c \in calls \ calls' : c.kind = "move") =>
          \A w \in WindowIds : OrderKept(w)]_vars

\* A pass that deduplicates and does not sort is past its duplicate
\* detection, which has put its descriptors in another order than the one
\* its two tabs have in the window.
C34_Witness ==
  \E p \in LivePasses :
    /\ passes[p].pc \in {"create", "remove"}
    /\ ~passes[p].sort /\ passes[p].deduplicate
    /\ Len(passes[p].tabPropsArray) = 2
    /\ idsOf(tabs[passes[p].windowId]) = idsOf(passes[p].tabPropsArray)
    /\ idList(passes[p].tabPropsArray) # idList(tabs[passes[p].windowId])


(***************************************************************************)
(* The comparators and the duplicate detection with the preference         *)
(* pref_tabs_sort_by_query_string off: the descriptors of the two tabs of  *)
(* a window, built under PREFS, are given to the compare function of the   *)
(* sort and to compareTabsSimilarity, and the array of the two is put      *)
(* through the duplicate detection and the filter of a dedupe pass.        *)
(***************************************************************************)
QueryProfiles ==
  {[PREFS_DEFAULT EXCEPT !.pref_tabs_deduplicate_on_browser_action = "true",
                         !.pref_tabs_sort_by_parts = mode,
                         !.pref_tabs_sort_by_query_string = "false"]
     : mode \in DOMAIN SORT_MODES}

QueryInit ==
  /\ PREFS \in QueryProfiles
  /\ \E fieldsA \in OrderTabs, fieldsB \in OrderTabs, active \in 1..2 :
       tabs = (1 :> << OrderTab(1, fieldsA, active = 1), OrderTab(2, fieldsB, active = 2) >>)
              @@ (2 :> << >>)
  /\ nextTabId = 3
  /\ windows = {}
  /\ passes = << >>
  /\ calls = {}

QueryCompare(argFirst) ==
  /\ passes = << >>
  /\ \E tabPropsArray \in {descriptorsOf(tabs[1])} :
       \E array \in {sortBySimilarity(tabPropsArray, argFirst)} :
         passes' = << [pc |-> "compared",
                       propsA |-> tabPropsArray[1],
                       propsB |-> tabPropsArray[2],
                       order |-> compareFunction(tabPropsArray[1], tabPropsArray[2]),
                       similarity |-> similarityResult(tabPropsArray[1], tabPropsArray[2]),
                       array |-> array,
                       removed |-> idsOf(unwantedOf(array, TRUE))] >>
  /\ UNCHANGED << PREFS, tabs, nextTabId, windows, calls >>

QueryNext == \E argFirst \in ArgOrders : QueryCompare(argFirst)

QuerySpec == QueryInit /\ [][QueryNext]_vars

\* The two tabs differ in the query string of their URLs and in nothing else.
differInQueryOnly(tabA, tabB) ==
  /\ tabA.url.search # tabB.url.search
  /\ [tabA.url EXCEPT !.search = << >>] = [tabB.url EXCEPT !.search = << >>]
  /\ tabA.title = tabB.title
  /\ tabA.cookieStoreId = tabB.cookieStoreId

MaxLegacyId == 4

MaxWindowTabs == 3

\* TabProps whose isNew is the one it is constructed with.
LegacyTabPropsAsGiven(isNew) == isNew

\* const TabProps = function (isNew, ...) { this.isNew = isNew || true; ... }
LegacyTabProps(isNew) == isNew \/ TRUE

\* url.URL(tab.url).scheme and .path
urlScheme(url) == SubSeq(url.protocol, 1, Len(url.protocol) - 1)

urlPath(url) == url.pathname

\* aboutPaths.get(path) for the scheme about, 0 otherwise.
aboutPriority(url) ==
  IF urlScheme(url) # Str(<<"a","b","o","u","t">>) THEN 0
  ELSE IF urlPath(url) = Str(<<"b","l","a","n","k">>) THEN 1
  ELSE IF urlPath(url) = Str(<<"n","e","w","t","a","b">>) THEN 2
  ELSE 0

\* prefs.get('browser.newtab.url')
BrowserNewtabUrl == AboutNewtab

LegacyPages == {PageA, PageBlank}

NoHandler == [handler |-> "none", tab |-> 0, closed |-> {}]

\* The state of the add-on when main() has run: it has seen no tab.
Loaded == << [tabMap |-> << >>, fresh |-> {}, sorted |-> {}, last |-> NoHandler] >>

\* tabMap.set(tab, props) and tabMap.delete(tab); tabMap is a function from
\* the ids of its tabs.
mapSet(tabMap, id, props) == [i \in DOMAIN tabMap \cup {id} |-> IF i = id THEN props ELSE tabMap[i]]

mapDelete(tabMap, ids) == [i \in DOMAIN tabMap \ ids |-> tabMap[i]]

\* The window without the tabs of ids; when the active tab goes, the host
\* activates the first tab that stays.
withoutTabs(seq, ids) ==
  LET kept(t) == t.id \notin ids
      rest == SelectSeq(seq, kept)
      hasActive == \E i \in 1..Len(rest) : rest[i].active
  IN  [i \in 1..Len(rest) |-> [rest[i] EXCEPT !.active = IF hasActive THEN @ ELSE i = 1]]

positionIn(seq, id) == CHOOSE i \in 1..Len(seq) : seq[i].id = id

\* cullBlankTabs(window): clearTimeout(cullingTimeout), then a new timer.
CullTimer(w) == [kind |-> "cull", windowId |-> w]

\* cullBlankTabs with a timer of its own for every window.
cullBlankTabsPerWindow(pending, w) == {c \in pending : c.windowId # w} \cup {CullTimer(w)}

\* The timers pending after cullBlankTabs(window): cullingTimeout is the
\* one timer of the add-on, whatever the window.
cullBlankTabs(pending, w) == {CullTimer(w)}


Ran(handler, id, closed) == [handler |-> handler, tab |-> id, closed |-> closed]

\* tabRelease(tab) for every tab of closed, and tabClosed(tab) on the
\* 'close' events that follow: tabMap.delete(tab), tab.close().
released(legacy, closed) ==
  [legacy EXCEPT !.tabMap = mapDelete(@, closed), !.fresh = @ \ closed]

\* tabs.on('open', tabOpened): a tab opens in window w to load page.
TabOpens(w, page) ==
  /\ Len(tabs[w]) \in 1..(MaxWindowTabs - 1)
  /\ nextTabId <= MaxLegacyId
  /\ tabs' = [tabs EXCEPT ![w] = Append(@, Tab(nextTabId, page, FALSE, FALSE, "loading"))]
  /\ nextTabId' = nextTabId + 1
  /\ passes' = << [passes[1] EXCEPT
                     !.tabMap = mapSet(@, nextTabId, LegacyTabProps(TRUE)),
                     !.fresh = @ \cup {nextTabId},
                     !.last = NoHandler] >>
  /\ calls' = IF PREFS.cullBlankMode < 2 THEN calls ELSE cullBlankTabs(calls, w)
  /\ UNCHANGED << PREFS, windows >>

\* tabs.on('activate', tabActivated): the i-th tab of window w is activated.
TabActivates(w, i) ==
  /\ i \in 1..Len(tabs[w])
  /\ ~tabs[w][i].active
  /\ tabs' = [tabs EXCEPT ![w] = [k \in 1..Len(tabs[w]) |-> [tabs[w][k] EXCEPT !.active = k = i]]]
  /\ \E id \in {tabs[w][i].id} :
       passes' = << [passes[1] EXCEPT
                       !.tabMap = IF id \in DOMAIN @ THEN @
                                  ELSE mapSet(@, id, LegacyTabProps(FALSE)),
                       !.last = NoHandler] >>
  /\ UNCHANGED << PREFS, nextTabId, windows, calls >>

\* The duplicate check of tabLoaded from index i on; windowTabs is the list
\* window.tabs, which loses a tab when it is closed if the list is live;
\* n is windowTabsLength.  Yields the tabs released.
RECURSIVE clobberScan(_, _, _, _, _, _, _)
clobberScan(windowTabs, i, n, tab, clobberNew, live, closed) ==
  IF i > n THEN closed
  ELSE IF i > Len(windowTabs) \/ windowTabs[i].id = tab.id
  THEN clobberScan(windowTabs, i + 1, n, tab, clobberNew, live, closed)
  ELSE IF tab.url = windowTabs[i].url
  THEN IF clobberNew THEN closed \cup {tab.id}
       ELSE IF ~windowTabs[i].pinned
       THEN clobberScan(IF live THEN withoutTabs(windowTabs, {windowTabs[i].id})
                                ELSE windowTabs,
                        i + 1, n, tab, clobberNew, live, closed \cup {windowTabs[i].id})
       ELSE clobberScan(windowTabs, i + 1, n, tab, clobberNew, live, closed)
  ELSE clobberScan(windowTabs, i + 1, n, tab, clobberNew, live, closed)

\* tabLoaded(tab) from `if (!tabProps.isNew) return` on, for a tab that has
\* TabProps: the tabs it releases.
clobbered(windowTabs, tab, isNew, live) ==
  IF ~isNew THEN {}
  ELSE IF PREFS.hardLimit # 0 /\ Len(windowTabs) > PREFS.hardLimit
  THEN IF urlScheme(tab.url) # Str(<<"a","b","o","u","t">>) \/ aboutPriority(tab.url) # 0
       THEN {tab.id} ELSE {}
  ELSE IF PREFS.clobber = "none" THEN {}
  ELSE IF aboutPriority(tab.url) # 0 \/ tab.url = BrowserNewtabUrl THEN {}
  ELSE clobberScan(windowTabs, 1, Len(windowTabs), tab, PREFS.clobber = "new", live, {})

\* tabs.on('load', tabLoaded): the i-th tab of window w has loaded its
\* page, for the first time or again.
TabLoads(w, i, live) ==
  /\ i \in 1..Len(tabs[w])
  /\ \E windowTabs \in {[tabs[w] EXCEPT ![i].status = "complete"]} :
     \E tab \in {windowTabs[i]} :
       IF tab.id \notin DOMAIN passes[1].tabMap
       THEN /\ tabs' = [tabs EXCEPT ![w] = windowTabs]
            /\ passes' = << [passes[1] EXCEPT
                               !.tabMap = mapSet(@, tab.id, LegacyTabProps(FALSE)),
                               !.last = Ran("tabLoaded", tab.id, {})] >>
       ELSE \E closed \in {clobbered(windowTabs, tab, passes[1].tabMap[tab.id], live)} :
              /\ tabs' = [tabs EXCEPT ![w] = withoutTabs(windowTabs, closed)]
              /\ passes' = << [released([passes[1] EXCEPT !.tabMap[tab.id] = FALSE,
                                                           !.fresh = @ \ {tab.id}],
                                        closed)
                                 EXCEPT !.last = Ran("tabLoaded", tab.id, closed)] >>
  /\ UNCHANGED << PREFS, nextTabId, windows, calls >>

\* A scan that releases every blank tab that has loaded but the last of
\* them in tab order.
cullScanKeepingLast(windowTabs, i, cullOnSort, tabSpared, closed) ==
  LET blanks == {k \in 1..Len(windowTabs) :
                   aboutPriority(windowTabs[k].url) # 0 /\ windowTabs[k].status = "complete"}
  IN  {windowTabs[k].id : k \in {k \in blanks : \E j \in blanks : j > k}}

\* The scan of the timer of cullBlankTabs from index i down: the tabs it
\* releases.
RECURSIVE cullScan(_, _, _, _, _)
cullScan(windowTabs, i, cullOnSort, tabSpared, closed) ==
  IF i < 1 THEN closed
  ELSE IF aboutPriority(windowTabs[i].url) = 0
  THEN IF cullOnSort THEN closed
       ELSE cullScan(windowTabs, i - 1, cullOnSort, TRUE, closed)
  ELSE IF windowTabs[i].status = "complete"
  THEN IF tabSpared
       THEN cullScan(windowTabs, i - 1, cullOnSort, tabSpared, closed \cup {windowTabs[i].id})
       ELSE cullScan(windowTabs, i - 1, cullOnSort, TRUE, closed)
  ELSE cullScan(windowTabs, i - 1, cullOnSort, tabSpared, closed)

\* The timer that cullBlankTabs has set runs, 150 ms after the request.
CullTimerRuns(c) ==
  /\ c \in calls
  /\ calls' = calls \ {c}
  /\ \E w \in {c.windowId} :
     \E closed \in {IF w \in windows THEN {}
                    ELSE cullScan(tabs[w], Len(tabs[w]), PREFS.cullBlankMode = 1, FALSE, {})} :
       /\ tabs' = [tabs EXCEPT ![w] = withoutTabs(@, closed)]
       /\ passes' = << [released(passes[1], closed) EXCEPT
                          !.sorted = @ \ {w},
                          !.last = Ran("cullBlankTabs", 0, closed)] >>
  /\ UNCHANGED << PREFS, nextTabId, windows >>


\* tokensComparator(tokensA, tokensB)
tokensComparator(tokensA, tokensB) ==
  OrElse(FirstNonZero([tokenIndex \in 1..Min(Len(tokensA), Len(tokensB)) |->
                         localeCompare(tokensA[tokenIndex], tokensB[tokenIndex])]),
         Sign(Len(tokensA) - Len(tokensB)))

\* url.getTLD(url): the last label of the host.
getTLD(url) ==
  LET labels == split(url.hostname, ".")
  IN  IF url.hostname = << >> THEN << >> ELSE labels[Len(labels)]

\* hostA.slice(0, hostA.lastIndexOf(tldA)).split('.').reverse()
hostishTokens(url) ==
  reverse(split(SubSeq(url.hostname, 1, Len(url.hostname) - Len(getTLD(url))), "."))

\* tabComparator(tabA, tabB), with sortByTimeCreated and sortByTimeAccessed
\* 'none'.
tabComparator(tabA, tabB) ==
  LET aboutA == urlScheme(tabA.url) = Str(<<"a","b","o","u","t">>)
      aboutB == urlScheme(tabB.url) = Str(<<"a","b","o","u","t">>)
      aboutPriorityA == aboutPriority(tabA.url)
      aboutPriorityB == aboutPriority(tabB.url)
      pathnameA == IF tabA.url.pathname = << >> THEN Str(<<"/">>) ELSE tabA.url.pathname
      pathnameB == IF tabB.url.pathname = << >> THEN Str(<<"/">>) ELSE tabB.url.pathname
      hashA == IF tabA.url.hash = << >> THEN Str(<<"#">>) ELSE tabA.url.hash
      hashB == IF tabB.url.hash = << >> THEN Str(<<"#">>) ELSE tabB.url.hash
      aPathless == pathnameA = Str(<<"/">>)
      bPathless == pathnameB = Str(<<"/">>)
      byTitle == localeCompare(tabA.title, tabB.title)
      byHost == OrElse(tokensComparator(hostishTokens(tabA.url), hostishTokens(tabB.url)),
                       localeCompare(getTLD(tabA.url), getTLD(tabB.url)))
      byPath == OrElse(tokensComparator(split(pathnameA, "/"), split(pathnameB, "/")),
                       localeCompare(hashA, hashB))
  IN  IF tabB.pinned THEN (IF tabA.pinned THEN 0 ELSE 1)
      ELSE IF tabA.pinned THEN -1
      ELSE IF aboutA /\ ~aboutB THEN 1
      ELSE IF ~aboutA /\ aboutB THEN -1
      ELSE IF aboutPriorityA # 0 /\ aboutPriorityB = 0 THEN 1
      ELSE IF aboutPriorityA = 0 /\ aboutPriorityB # 0 THEN -1
      ELSE IF aboutPriorityA # 0 /\ aboutPriorityB # 0 THEN aboutPriorityA - aboutPriorityB
      ELSE IF PREFS.sortMode = 2 THEN byTitle
      ELSE IF byHost # 0 THEN byHost
      ELSE IF bPathless THEN (IF aPathless THEN 0 ELSE 1)
      ELSE IF aPathless THEN -1
      ELSE IF PREFS.sortMode = 0 THEN OrElse(byTitle, byPath)
      ELSE OrElse(byPath, byTitle)

\* sortingTabs.sort(tabComparator): the tabs in the order of the
\* comparator, those that compare equal in the order they had.
RECURSIVE sortTabsFrom(_, _)
sortTabsFrom(sortingTabs, i) ==
  IF i > Len(sortingTabs) THEN sortingTabs
  ELSE sortTabsFrom(
         inserted(sortingTabs, i,
                  scanStop({j \in 1..(i - 1) : tabComparator(sortingTabs[j], sortingTabs[i]) <= 0})),
         i + 1)

\* for (i = windowTabsLength - 1; i > -1; --i) if (!tab.isPinned &&
\* tab.index !== i) tab.index = i: from the last position to the first,
\* the tab that the sort has put there is moved there unless it is pinned
\* or there already.
RECURSIVE placeTabs(_, _, _)
placeTabs(windowTabs, sortingTabs, i) ==
  IF i < 1 THEN windowTabs
  ELSE IF sortingTabs[i].pinned \/ windowTabs[i].id = sortingTabs[i].id
  THEN placeTabs(windowTabs, sortingTabs, i - 1)
  ELSE LET from == positionIn(windowTabs, sortingTabs[i].id)
           rest == [k \in 1..(Len(windowTabs) - 1) |->
                      IF k < from THEN windowTabs[k] ELSE windowTabs[k + 1]]
           moved == [k \in 1..Len(windowTabs) |->
                       IF k < i THEN rest[k]
                       ELSE IF k = i THEN windowTabs[from]
                       ELSE rest[k - 1]]
       IN  placeTabs(moved, sortingTabs, i - 1)

\* The tabs of a window after sortWindow(window).
sortWindow(windowTabs) ==
  placeTabs(windowTabs, sortTabsFrom(windowTabs, 2), Len(windowTabs))

\* sortTabs(), from the hotkey, the idle observer or the context menu: the
\* windows are sorted one after the other, and each sortWindow ends with
\* cullBlankTabs(window) when cullBlankMode is 1.
RECURSIVE cullRequests(_, _)
cullRequests(pending, ws) ==
  IF ws = << >> THEN pending
  ELSE cullRequests(cullBlankTabs(pending, Head(ws)), Tail(ws))

openWindows == SelectSeq(<< 1, 2 >>, LAMBDA w : Len(tabs[w]) > 0)

SortTabs(activeWindow) ==
  /\ Len(tabs[activeWindow]) > 0
  /\ \E ws \in {IF PREFS.sortAllWindows THEN openWindows ELSE << activeWindow >>} :
       /\ tabs' = [w \in WindowIds |->
                     IF \E k \in 1..Len(ws) : ws[k] = w THEN sortWindow(tabs[w]) ELSE tabs[w]]
       /\ calls' = IF PREFS.cullBlankMode = 1 THEN cullRequests(calls, ws) ELSE calls
       /\ passes' = << [passes[1] EXCEPT
                          !.sorted = IF PREFS.cullBlankMode = 1
                                     THEN @ \cup {ws[k] : k \in 1..Len(ws)} ELSE @,
                          !.last = NoHandler] >>
  /\ UNCHANGED << PREFS, nextTabId, windows >>

(***************************************************************************)
(* The tab events of the legacy add-on: one window of one or two tabs      *)
(* that the add-on finds when it is loaded, the first of them pinned or    *)
(* not; tabs open in it, are activated and load.                           *)
(***************************************************************************)
LoadProfiles ==
  [clobber : {"none", "new", "existing"}, hardLimit : {0, 2},
   cullBlankMode : {1}, sortAllWindows : {FALSE}, sortMode : {0}]

LoadLayouts ==
  UNION {{[i \in 1..n |-> Tab(i, kinds[i][1], kinds[i][2] /\ i = 1, i = 1, "complete")]
            : kinds \in [1..n -> LegacyPages \X BOOLEAN]} : n \in 1..(MaxWindowTabs - 1)}

LoadInit ==
  /\ PREFS \in LoadProfiles
  /\ \E layout \in LoadLayouts : tabs = (1 :> layout) @@ (2 :> << >>)
  /\ nextTabId = MaxWindowTabs
  /\ windows = {}
  /\ calls = {}
  /\ passes = Loaded

LoadNext ==
  \/ \E page \in LegacyPages : TabOpens(1, page)
  \/ \E i \in 1..MaxWindowTabs : TabActivates(1, i)
  \/ \E i \in 1..MaxWindowTabs, live \in BOOLEAN : TabLoads(1, i, live)

LoadSpec == LoadInit /\ [][LoadNext]_vars


\* The tabs that are in a window before the step and in none after it.
ClosedInStep ==
  UNION {idsOf(tabs[w]) : w \in WindowIds} \ UNION {idsOf(tabs'[w]) : w \in WindowIds}

(***************************************************************************)
(* C36.  tabLoaded closes a tab only when the tab that has loaded was      *)
(* registered by tabOpened and is loading for the first time since: the    *)
(* load of a tab that tabLoaded or tabActivated recorded first, and a      *)
(* later load of a tab that has loaded before, close no tab.               *)
(***************************************************************************)
C36_OnlyNewTabsAct ==
  [][(passes'[1].last.handler = "tabLoaded" /\ ClosedInStep # {})
       => passes'[1].last.tab \in passes[1].fresh]_vars


\* This step is tabLoaded for the new tab id: one that tabOpened has
\* registered and that has not loaded before.
NewTabLoads(id) ==
  /\ id \in passes[1].fresh /\ id \notin passes'[1].fresh
  /\ passes'[1].last.handler = "tabLoaded" /\ passes'[1].last.tab = id

\* The other tabs of window w with the URL of its tab id.
duplicatesOf(w, id) ==
  {tabs[w][i].id : i \in {i \in 1..Len(tabs[w]) :
                            /\ tabs[w][i].id # id
                            /\ tabs[w][i].url = tabs[w][positionIn(tabs[w], id)].url}}

pinnedIn(w) == {tabs[w][i].id : i \in {i \in 1..Len(tabs[w]) : tabs[w][i].pinned}}

WithinHardLimit(w) == PREFS.hardLimit = 0 \/ Len(tabs[w]) <= PREFS.hardLimit

(***************************************************************************)
(* C37.  When a new tab has loaded in a window that is within the hard     *)
(* limit and holds other tabs with its URL: with clobber 'new' the new     *)
(* tab and no other is closed; with clobber 'existing' every other tab     *)
(* with that URL that is not pinned is closed and the new tab stays; with  *)
(* clobber 'none', or when the new tab is a blank about: page, no tab is   *)
(* closed; no pinned tab is closed.                                        *)
(***************************************************************************)
C37_ClobberByMode ==
  [][\A id \in idsOf(tabs[1]) :
       (NewTabLoads(id) /\ WithinHardLimit(1) /\ duplicatesOf(1, id) # {}) =>
         /\ ClosedInStep \cap pinnedIn(1) = {}
         /\ IF PREFS.clobber = "none" \/ aboutPriority(tabs[1][positionIn(tabs[1], id)].url) # 0
            THEN ClosedInStep = {}
            ELSE IF PREFS.clobber = "new" THEN ClosedInStep = {id}
            ELSE ClosedInStep = duplicatesOf(1, id) \ pinnedIn(1)]_vars


(***************************************************************************)
(* Sorting and culling in the legacy add-on: two windows of web tabs and   *)
(* blank tabs, loaded or still loading; sortTabs runs, tabs open, and the  *)
(* timer of cullBlankTabs runs.                                            *)
(***************************************************************************)
CullProfiles ==
  [clobber : {"none"}, hardLimit : {0}, cullBlankMode : {1, 2},
   sortAllWindows : BOOLEAN, sortMode : {0}]

CullKinds == {<< PageA, "complete" >>, << PageBlank, "complete" >>, << PageBlank, "loading" >>}

CullLayouts(base, sizes) ==
  UNION {{[i \in 1..n |-> Tab(base + i, kinds[i][1], FALSE, i = 1, kinds[i][2])]
            : kinds \in [1..n -> CullKinds]} : n \in sizes}

CullInit ==
  /\ PREFS \in CullProfiles
  /\ \E layout1 \in CullLayouts(0, 1..(MaxWindowTabs - 1)),
        layout2 \in CullLayouts(MaxWindowTabs - 1, 0..1) :
       tabs = (1 :> layout1) @@ (2 :> layout2)
  /\ nextTabId = MaxLegacyId
  /\ windows = {}
  /\ calls = {}
  /\ passes = Loaded

CullNext ==
  \/ \E activeWindow \in WindowIds : SortTabs(activeWindow)
  \/ \E w \in WindowIds, page \in LegacyPages : TabOpens(w, page)
  \/ \E c \in calls : CullTimerRuns(c)

CullSpec == CullInit /\ [][CullNext]_vars

\* A timer that stays set runs in the end, each window's on its own.
CullFairSpec == CullSpec /\ \A w \in WindowIds : WF_vars(CullTimerRuns(CullTimer(w)))

\* This step is the run of the timer that cullBlankTabs has set for window w.
TimerRunsFor(w) ==
  /\ CullTimer(w) \in calls
  /\ calls' = calls \ {CullTimer(w)}
  /\ passes'[1].last.handler = "cullBlankTabs"

isBlankLoaded(tab) == aboutPriority(tab.url) # 0 /\ tab.status = "complete"

\* The positions of window w that the scan of the timer gets to: all of
\* them in mode aggressive, those behind the last web tab in mode onSort.
reachedIn(w) ==
  {i \in 1..Len(tabs[w]) :
     PREFS.cullBlankMode = 1 =>
       \A j \in (i + 1)..Len(tabs[w]) : aboutPriority(tabs[w][j].url) # 0}

(***************************************************************************)
(* C38, as stated.  When the timer of a cullBlankTabs request has run, of  *)
(* the blank tabs that have loaded and that the scan has got to, the last  *)
(* in tab order remains and the others are closed, and no tab that is not  *)
(* blank is closed.                                                        *)
(***************************************************************************)
C38_LastBlankKept ==
  [][\A w \in WindowIds :
       TimerRunsFor(w) =>
         \E loaded \in {{i \in reachedIn(w) : isBlankLoaded(tabs[w][i])}} :
           /\ \A i \in 1..Len(tabs[w]) :
                tabs[w][i].id \in ClosedInStep => aboutPriority(tabs[w][i].url) # 0
           /\ \A i \in loaded :
                tabs[w][i].id \in ClosedInStep <=> \E j \in loaded : j > i]_vars

(***************************************************************************)
(* C38, amended.  When the timer has run, the tabs closed are the blank    *)
(* tabs that have loaded, that the scan has got to, and that have behind   *)
(* them another blank tab that has loaded or, in mode aggressive, a tab    *)
(* that is not blank: a blank tab is kept by the scan only as the last     *)
(* tab of those it looks at.  No other tab is closed.                      *)
(***************************************************************************)
C38_BlankKeptOnlyAtEnd ==
  [][\A w \in WindowIds :
       TimerRunsFor(w) =>
         ClosedInStep =
           {tabs[w][i].id : i \in
              {i \in reachedIn(w) :
                 /\ isBlankLoaded(tabs[w][i])
                 /\ \E j \in (i + 1)..Len(tabs[w]) :
                      \/ isBlankLoaded(tabs[w][j])
                      \/ PREFS.cullBlankMode = 2 /\ aboutPriority(tabs[w][j].url) = 0}}]_vars

\* In mode aggressive the timer has run and has closed the blank tabs of
\* window 1, which ends with a web tab: no blank tab is left in it.
C38_Witness ==
  /\ PREFS.cullBlankMode = 2
  /\ passes[1].last.handler = "cullBlankTabs"
  /\ passes[1].last.closed # {}
  /\ \A id \in passes[1].last.closed : id < MaxWindowTabs
  /\ Len(tabs[1]) > 0
  /\ \A i \in 1..Len(tabs[1]) : aboutPriority(tabs[1][i].url) = 0

(***************************************************************************)
(* C39.  In mode onSort every window that sortTabs has sorted has its      *)
(* blank tabs culled in the end: the timer that sortWindow has requested   *)
(* for the window runs, whatever is requested for other windows after it.  *)
(* The timers are fair: one that stays set runs.                           *)
(***************************************************************************)
C39_SortedWindowIsCulled ==
  \A w \in WindowIds : (w \in passes[1].sorted) ~> (w \notin passes[1].sorted)

====
